---- MODULE Spec2Model ----
(***************************************************************************)
(* retryyy: the retry engine (core.ts), the policy units (policies/*.ts)  *)
(* and the public wrapping API (retryyy.ts) as a state machine.           *)
(*                                                                         *)
(* Time is in integer milliseconds (Date.now()).  Math.random() draws and  *)
(* the jitter factors are fixed-point numbers in thousandths; a delay is   *)
(* floored to whole milliseconds.                                          *)
(***************************************************************************)
EXTENDS Integers, Sequences, FiniteSets, TLC

\* ---------------------------------------------------------------- bounds

\* The clock advances in 1 ms ticks while now < MaxNow (timer deadlines
\* beyond MaxNow are reached by jumping to them).
MaxNow == 3

\* The operation is invoked at most MaxCalls times within one call.
MaxCalls == 4

\* The concurrent calls of the one wrapped function.
Calls == {1, 2}

\* Math.random() draws, in thousandths: 0, 0.5 and 0.999.
Rnd == {0, 500, 999}

\* ---------------------------------------------------------------- values

Min(a, b) == IF a <= b THEN a ELSE b

Max(a, b) == IF a >= b THEN a ELSE b

\* `options?.name ?? dflt`: an option that is absent (undefined) takes its default.
Opt(options, name, dflt) == IF name \in DOMAIN options THEN options[name] ELSE dflt

\* Everything that can be thrown or delivered has the same shape.
NoError == [kind |-> "null", call |-> 0, n |-> 0, errors |-> <<>>, cause |-> <<>>]

\* The error the operation rejects with on the n-th invocation of call c.
OpError(c, n) == [kind |-> "op", call |-> c, n |-> n, errors |-> <<>>, cause |-> <<>>]

\* The value the operation resolves with on the n-th invocation of call c.
OpValue(c, n) == [kind |-> "value", call |-> c, n |-> n, errors |-> <<>>, cause |-> <<>>]

\* signal.reason: what the caller passed to controller.abort(...).
AbortReason == [kind |-> "abort", call |-> 0, n |-> 0, errors |-> <<>>, cause |-> <<>>]

\* new RetryyyError(errors, { cause })
RetryyyError(errors, cause) ==
    [kind |-> "aggregate", call |-> 0, n |-> 0, errors |-> errors, cause |-> <<cause>>]

\* new Error('Max attempts reached'), thrown by policy1 of the join test.
MaxAttemptsReached == [kind |-> "max", call |-> 0, n |-> 0, errors |-> <<>>, cause |-> <<>>]

\* The RetryState a call starts with.
NewState(start) ==
    [attempt |-> 0, delay |-> 0, elapsed |-> 0, error |-> NoError,
     errors |-> <<>>, start |-> start]

\* ------------------------------------------------------ policy evaluation

\* What one evaluation of a policy yields: a delay or a thrown value, and the
\* side effects it had (log calls, PollyJitter's factors table).  `calls` is
\* an observation: the units that were called, in call order.
Effects(fac) ==
    [present |-> TRUE, thrown |-> FALSE, delay |-> 0, err |-> NoError,
     logs |-> <<>>, fac |-> fac, calls |-> <<>>]

Return(d, eff) == [eff EXCEPT !.thrown = FALSE, !.delay = d]

Throw(e, eff) == [eff EXCEPT !.thrown = TRUE, !.err = e]

\* `next` of the last unit of a chain: undefined.
Absent(eff) == [eff EXCEPT !.present = FALSE]

\* Breaker: give up once state.attempt >= max.
BreakerDefaultMax == 10

\* Mutant: there is no ceiling.
BreakerNeverTrips(options, state, next, eff) ==
    IF next.present THEN next ELSE Throw(state.error, eff)

\* Mutant: the ceiling compared with > instead of >=.
BreakerOffByOne(options, state, next, eff) ==
    LET max == Opt(options, "max", BreakerDefaultMax) IN
    IF state.attempt > max THEN Throw(state.error, eff)
    ELSE IF next.present THEN next
    ELSE Throw(state.error, eff)

\* Mutant: next is called before the ceiling is looked at.
BreakerCallsNextFirst(options, state, next, eff) ==
    LET max == Opt(options, "max", BreakerDefaultMax) IN
    IF next.present /\ next.thrown THEN next
    ELSE IF state.attempt >= max
         THEN Throw(state.error, IF next.present THEN next ELSE eff)
    ELSE IF next.present THEN next
    ELSE Throw(state.error, eff)

\* Mutant: Breaker gives up with an error of its own.
BreakerThrowsOwnError(options, state, next, eff) ==
    LET max == Opt(options, "max", BreakerDefaultMax) IN
    IF state.attempt >= max THEN Throw(MaxAttemptsReached, eff)
    ELSE IF next.present THEN next
    ELSE Throw(MaxAttemptsReached, eff)

Breaker(options, state, next, eff) ==
    LET max == Opt(options, "max", BreakerDefaultMax) IN
    IF state.attempt >= max THEN Throw(state.error, eff)
    ELSE IF next.present THEN next
    ELSE Throw(state.error, eff)

\* Timeout: give up once state.elapsed > after - state.delay.
TimeoutDefaultAfter == 30000

\* Mutant: the deadline is reached as soon as elapsed equals it.
TimeoutNotStrict(options, state, next, eff) ==
    LET after == Opt(options, "after", TimeoutDefaultAfter) IN
    IF state.elapsed >= after - state.delay \/ ~next.present
    THEN Throw(state.error, eff)
    ELSE next

\* Mutant: the deadline is compared with state.elapsed alone.
TimeoutIgnoresDelay(options, state, next, eff) ==
    LET after == Opt(options, "after", TimeoutDefaultAfter) IN
    IF state.elapsed > after \/ ~next.present
    THEN Throw(state.error, eff)
    ELSE next

Timeout(options, state, next, eff) ==
    LET after == Opt(options, "after", TimeoutDefaultAfter) IN
    IF state.elapsed > after - state.delay \/ ~next.present
    THEN Throw(state.error, eff)
    ELSE next

\* Mutant: every retry is immediate, not only the first.
FastTrackEveryAttempt(state, next, eff) ==
    IF next.present /\ next.thrown THEN next
    ELSE Return(0, IF next.present THEN next ELSE eff)

\* FastTrack: `next?.(state) ?? 0`, overridden to 0 on the first failure.
FastTrack(state, next, eff) ==
    IF next.present /\ next.thrown THEN next
    ELSE LET delay == IF next.present THEN next.delay ELSE 0
             after == IF next.present THEN next ELSE eff
         IN Return(IF state.attempt = 1 THEN 0 ELSE delay, after)

\* A log call: the sink ("console", "custom" or "noop") and what it is given.
LogEntry(level, sink, state, err) ==
    [level |-> level, sink |-> sink, attempt |-> state.attempt,
     elapsed |-> state.elapsed, err |-> err]

\* Mutant: a failure the chain gives up on is logged at error level only.
LoggerWarnsRetriesOnly(options, state, next, eff) ==
    LET warn  == Opt(options, "warn", "console")
        error == Opt(options, "error", "console")
        r     == IF next.present THEN next ELSE Throw(state.error, eff)
    IN [r EXCEPT !.present = TRUE,
                 !.logs = IF r.thrown
                          THEN r.logs \o <<LogEntry("error", error, state, r.err)>>
                          ELSE <<LogEntry("warn", warn, state, state.error)>> \o r.logs]

\* Mutant: the error-level log is given state.error, not what was caught.
LoggerLogsStateError(options, state, next, eff) ==
    LET warn  == Opt(options, "warn", "console")
        error == Opt(options, "error", "console")
        r     == IF next.present THEN next ELSE Throw(state.error, eff)
    IN [r EXCEPT !.present = TRUE,
                 !.logs = <<LogEntry("warn", warn, state, state.error)>>
                          \o r.logs
                          \o (IF r.thrown
                              THEN <<LogEntry("error", error, state, state.error)>>
                              ELSE <<>>)]

Logger(options, state, next, eff) ==
    LET warn  == Opt(options, "warn", "console")
        error == Opt(options, "error", "console")
        r     == IF next.present THEN next ELSE Throw(state.error, eff)
    IN [r EXCEPT !.present = TRUE,
                 !.logs = <<LogEntry("warn", warn, state, state.error)>>
                          \o r.logs
                          \o (IF r.thrown
                              THEN <<LogEntry("error", error, state, r.err)>>
                              ELSE <<>>)]

\* BrandError: wrap whatever the rest of the chain throws.
BrandError(state, next, eff) ==
    LET r == IF next.present THEN next ELSE Throw(state.error, eff) IN
    IF r.thrown
    THEN [r EXCEPT !.present = TRUE,
                   !.err = RetryyyError(Append(state.errors, r.err), r.err)]
    ELSE r

\* 1000 * 2^t * tanh(sqrt(POLLY_P_FACTOR * t)), t in thousandths, at the
\* points t = attempt - 1 + r that the draws of Rnd reach.
PollyCurve(t) ==
    CASE t = 0    -> 0
      [] t = 500  -> 1256
      [] t = 999  -> 1927
      [] t = 1000 -> 1928
      [] t = 1500 -> 2787
      [] t = 1999 -> 3969
      [] t = 2000 -> 3972
      [] t = 2500 -> 5637
      [] t = 2999 -> 7979
      [] t = 3000 -> 7984
      [] t = 3500 -> 11301
      [] t = 3999 -> 15978
      [] t = 4000 -> 15989
      [] t = 4500 -> 22618
      [] t = 4999 -> 31969
      [] t = 5000 -> 31992
      [] t = 5500 -> 45247
      [] t = 5999 -> 63949
      [] t = 6000 -> 63993
      [] t = 6500 -> 90503
      [] t = 6999 -> 127905

\* Mutant: one factor per PollyJitter unit, whatever the state.
FactorKeyPerUnit(unit, sid) == <<unit, 0>>

\* factors.get(state) ?? 0 and factors.set(state, next): the WeakMap of one
\* PollyJitter unit, keyed by the identity of the RetryState object.
FactorKey(unit, sid) == <<unit, sid>>

FactorsGet(fac, key) == IF key \in DOMAIN fac THEN fac[key] ELSE 0

FactorsSet(fac, key, v) ==
    [k \in DOMAIN fac \cup {key} |-> IF k = key THEN v ELSE fac[k]]

PollyDefaultInitial == 150

PollyDefaultMax == 30000

\* Mutant: the delay of the middleware is added to the jittered delay.
PollyJitterAddsDelay(options, state, key, next, eff, r) ==
    IF next.present /\ next.thrown THEN next
    ELSE LET initial == Opt(options, "initial", PollyDefaultInitial)
             max     == Opt(options, "max", PollyDefaultMax)
             after   == IF next.present THEN next ELSE eff
             t       == (state.attempt - 1) * 1000 + r
             prev    == FactorsGet(after.fac, key)
             nxt     == PollyCurve(t)
             shift   == nxt - prev
         IN [Return(Min(max, (shift * initial) \div 1400
                                + (IF next.present THEN next.delay ELSE 0)), after)
                EXCEPT !.present = TRUE, !.fac = FactorsSet(after.fac, key, nxt)]

PollyJitter(options, state, key, next, eff, r) ==
    IF next.present /\ next.thrown THEN next
    ELSE LET initial == Opt(options, "initial", PollyDefaultInitial)
             max     == Opt(options, "max", PollyDefaultMax)
             after   == IF next.present THEN next ELSE eff
             t       == (state.attempt - 1) * 1000 + r
             prev    == FactorsGet(after.fac, key)
             nxt     == PollyCurve(t)
             shift   == nxt - prev
         IN [Return(Min(max, (shift * initial) \div 1400), after)
                EXCEPT !.present = TRUE, !.fac = FactorsSet(after.fac, key, nxt)]

\* The policy of core.test.ts: retry at once until the k-th failure.
GiveUpAt(k, state, eff) ==
    IF state.attempt >= k THEN Throw(state.error, eff) ELSE Return(0, eff)

\* The policy of the retryyy test: give up as soon as there is an error.
ThrowIfError(state, eff) ==
    IF state.error.kind # "null" THEN Throw(state.error, eff) ELSE Return(0, eff)

\* policy1 of the join test: give up after the second failure, else delegate.
Policy1(state, next, eff) ==
    IF state.attempt > 2 THEN Throw(MaxAttemptsReached, eff)
    ELSE IF next.present THEN next
    ELSE Return(0, eff)

\* policy2 of the join test: a delay of one second per failure.
Policy2(state, eff) == Return(state.attempt * 1000, eff)

\* The policies of the flattening test: () => 100, () => 200, () => 300.
FixedDelay(d, eff) == Return(d, eff)

\* new TypeError('delay must be a positive number') (n = 1) and
\* new TypeError('exp must be a positive number') (n = 2).
BackoffTypeError(n) ==
    [kind |-> "TypeError", call |-> 0, n |-> n, errors |-> <<>>, cause |-> <<>>]

BackoffDefaultDelay == 150

BackoffDefaultExp == 2

BackoffDefaultMax == 30000

\* Mutant: only negative numbers are refused.
BackoffAcceptsZero(options) ==
    LET delay == Opt(options, "delay", BackoffDefaultDelay)
        exp   == Opt(options, "exp", [num |-> BackoffDefaultExp, den |-> 1])
        max   == Opt(options, "max", BackoffDefaultMax)
    IN  IF delay < 0 THEN BackoffTypeError(1)
        ELSE IF exp.num < 0 THEN BackoffTypeError(2)
        ELSE [kind |-> "Backoff", delay |-> delay, exp |-> exp, max |-> max]

\* Backoff({ delay, exp, max }): the defaults are filled in and the options
\* validated; what it returns is the policy, or the TypeError it throws.
\* exp is the fraction num/den with den > 0.
Backoff(options) ==
    LET delay == Opt(options, "delay", BackoffDefaultDelay)
        exp   == Opt(options, "exp", [num |-> BackoffDefaultExp, den |-> 1])
        max   == Opt(options, "max", BackoffDefaultMax)
    IN  IF delay <= 0 THEN BackoffTypeError(1)
        ELSE IF exp.num <= 0 THEN BackoffTypeError(2)
        ELSE [kind |-> "Backoff", delay |-> delay, exp |-> exp, max |-> max]

\* Math.pow(b, n) for whole b and n >= 0.
RECURSIVE Pow(_, _)
Pow(b, n) == IF n = 0 THEN 1 ELSE b * Pow(b, n - 1)

\* Mutant: the exponent is state.attempt.
BackoffDelayByAttempt(u, state, next, eff) ==
    IF next.present /\ next.thrown THEN next
    ELSE LET after == IF next.present THEN next ELSE eff IN
         [Return(Min(u.max, (u.delay * Pow(u.exp.num, state.attempt))
                                \div Pow(u.exp.den, state.attempt)), after)
             EXCEPT !.present = TRUE]

\* The policy Backoff returns: next is called for its effects only (what it
\* throws propagates), the delay is
\* Math.min(max, delay * Math.pow(exp, state.attempt - 1)).
BackoffDelay(u, state, next, eff) ==
    IF next.present /\ next.thrown THEN next
    ELSE LET after == IF next.present THEN next ELSE eff IN
         [Return(Min(u.max, (u.delay * Pow(u.exp.num, state.attempt - 1))
                                \div Pow(u.exp.den, state.attempt - 1)), after)
             EXCEPT !.present = TRUE]

\* Jitter's range and offset are proportions of the delay, given here in
\* thousandths: the defaults are -0.5 and 0.25.
JitterDefaultRange == -500

JitterDefaultOffset == 250

\* Jitter(options): the policy with its range and offset.
Jitter(options) ==
    [kind |-> "Jitter",
     range |-> Opt(options, "range", JitterDefaultRange),
     offset |-> Opt(options, "offset", JitterDefaultOffset)]

\* FullJitter(): Jitter({ offset: -1, range: 1 }).
FullJitter == Jitter([offset |-> -1000, range |-> 1000])

\* EqualJitter(): Jitter({ offset: -0.5, range: 0.5 }).
EqualJitter == Jitter([offset |-> -500, range |-> 500])

\* d * f / 1000000 in whole ms, for a factor f given in millionths
\* (computed in two steps to stay within 32 bits).
Scaled(d, f) == (d * (f \div 1000) + (d * (f % 1000)) \div 1000) \div 1000

\* Mutant: the window is not shifted by the offset.
JitterDelayNoShift(u, state, next, eff, r) ==
    IF ~next.present THEN Throw(state.error, eff)
    ELSE IF next.thrown THEN next
    ELSE Return(Scaled(next.delay, 1000000 + u.range * r), next)

\* Mutant: without a next the delay to randomize is 0.
JitterDelayOpenEnded(u, state, next, eff, r) ==
    IF ~next.present THEN [Return(0, eff) EXCEPT !.present = TRUE]
    ELSE IF next.thrown THEN next
    ELSE Return(Scaled(next.delay, 1000000 + u.range * r + u.offset * 1000), next)

\* The policy Jitter returns: it throws state.error when it is last, else
\* delay + delay * range * Math.random() + delay * offset for the delay of
\* next; r is the draw in thousandths, the result is in whole ms.
JitterDelay(u, state, next, eff, r) ==
    IF ~next.present THEN Throw(state.error, eff)
    ELSE IF next.thrown THEN next
    ELSE Return(Scaled(next.delay, 1000000 + u.range * r + u.offset * 1000), next)

DecorrelatedDefaultInitial == 150

DecorrelatedDefaultMax == 30000

\* DecorrelatedJitter: next is called for its effects only, the delay is
\* Math.random() * (top - initial) + initial with
\* top = Math.min(max, past * 3); r is the draw in thousandths, the result
\* is in whole ms.
DecorrelatedJitter(options, state, next, eff, r) ==
    IF next.present /\ next.thrown THEN next
    ELSE LET initial == Opt(options, "initial", DecorrelatedDefaultInitial)
             max     == Opt(options, "max", DecorrelatedDefaultMax)
             after   == IF next.present THEN next ELSE eff
             past    == IF state.attempt = 1 THEN initial ELSE state.delay
             top     == Min(max, past * 3)
         IN [Return((r * (top - initial)) \div 1000 + initial, after)
                EXCEPT !.present = TRUE]

\* The units of a chain that draw from Math.random().
RandomUnits(ch) ==
    {i \in 1..Len(ch) : ch[i].kind \in {"PollyJitter", "Jitter", "DecorrelatedJitter"}}

\* Observation of one call of a unit: which unit, with what state, whether
\* it was given a next, and what it returned or threw (r).  The calls a unit
\* made itself follow its own entry.
Called(unit, kind, state, next, r) ==
    [r EXCEPT !.calls = <<[unit |-> unit, kind |-> kind, state |-> state,
                           hasNext |-> next.present, thrown |-> r.thrown,
                           delay |-> IF r.thrown THEN 0 ELSE r.delay,
                           err |-> IF r.thrown THEN r.err ELSE NoError]>> \o @]

\* join's composition: unit i is called with the state and, as its next, a
\* function that calls unit i+1 the same way; the last unit has no next.
\* A unit that is itself a composition takes the state only: it starts its
\* own chain and never calls the next it is given.
RECURSIVE Invoke(_, _, _, _, _, _)
Invoke(ch, i, state, sid, eff, rs) ==
    IF i > Len(ch) THEN Absent(eff)
    ELSE LET u    == ch[i]
             next == Invoke(ch, i + 1, state, sid, eff, rs)
             r    ==
                CASE u.kind = "Logger"       -> Logger(u.options, state, next, eff)
                  [] u.kind = "Timeout"      -> Timeout(u.options, state, next, eff)
                  [] u.kind = "Breaker"      -> Breaker(u.options, state, next, eff)
                  [] u.kind = "FastTrack"    -> FastTrack(state, next, eff)
                  [] u.kind = "BrandError"   -> BrandError(state, next, eff)
                  [] u.kind = "PollyJitter"  ->
                        PollyJitter(u.options, state, FactorKey(i, sid), next, eff, rs[i])
                  [] u.kind = "GiveUpAt"     -> GiveUpAt(u.k, state, eff)
                  [] u.kind = "ThrowIfError" -> ThrowIfError(state, eff)
                  [] u.kind = "Policy1"      -> Policy1(state, next, eff)
                  [] u.kind = "Policy2"      -> Policy2(state, eff)
                  [] u.kind = "FixedDelay"   -> FixedDelay(u.delay, eff)
                  [] u.kind = "Backoff"      -> BackoffDelay(u, state, next, eff)
                  [] u.kind = "Jitter"       -> JitterDelay(u, state, next, eff, rs[i])
                  [] u.kind = "DecorrelatedJitter" ->
                        DecorrelatedJitter(u.options, state, next, eff, rs[i])
                  [] u.kind = "Joined"       -> Invoke(u.chain, 1, state, sid, eff, rs)
         IN Called(i, u.kind, state, next, r)

\* An argument of join that is an array of policies (any other argument is
\* a policy).
Array(items) == [kind |-> "Array", items |-> items]

\* policies.flat(): the arrays among the arguments are replaced by their
\* items, one level deep.
RECURSIVE Flat(_)
Flat(policies) ==
    IF policies = <<>> THEN <<>>
    ELSE (IF Head(policies).kind = "Array" THEN Head(policies).items
          ELSE <<Head(policies)>>)
         \o Flat(Tail(policies))

\* What reduceRight throws for an empty array, there being no initial value.
TypeError == [kind |-> "TypeError", call |-> 0, n |-> 0, errors |-> <<>>, cause |-> <<>>]

\* Mutant: the units are composed with reduce, the last one called first.
joinReduce(policies) ==
    LET units == Flat(policies) IN
    IF units = <<>> THEN TypeError
    ELSE IF Len(units) = 1 THEN units[1]
    ELSE [kind |-> "Joined",
          chain |-> [i \in 1..Len(units) |-> units[Len(units) + 1 - i]]]

\* join: reduceRight over the flattened arguments.  Without an initial value
\* it throws for no unit, returns a single unit as it is, and else wraps the
\* units from the right: (state) => policy(state, next).  What join returns
\* is a policy, or TypeError when it throws.
join(policies) ==
    LET units == Flat(policies) IN
    IF units = <<>> THEN TypeError
    ELSE IF Len(units) = 1 THEN units[1]
    ELSE [kind |-> "Joined", chain |-> units]

\* A policy as the chain the engine starts when it calls policy(state).
Units(p) == IF p.kind = "Joined" THEN p.chain ELSE <<p>>

\* Mutant: an option that is not given selects the noop sink.
LoggerOrNoopByDefault(options, name) ==
    IF name \notin DOMAIN options THEN <<"noop">>
    ELSE IF options[name] = "custom" THEN <<"custom">>
    ELSE IF options[name] = "true" THEN << >>
    ELSE <<"noop">>

\* loggerOrNoop: a function is used as given, true/undefined select the
\* console, anything else (false) the noop sink.
LoggerOrNoop(options, name) ==
    IF name \notin DOMAIN options THEN << >>
    ELSE IF options[name] = "custom" THEN <<"custom">>
    ELSE IF options[name] = "true" THEN << >>
    ELSE <<"noop">>

\* An options object with the property `name` set when `v` holds a value.
WithOption(name, v) == IF v = << >> THEN << >> ELSE [x \in {name} |-> v[1]]

Merge(f, g) ==
    [x \in DOMAIN f \cup DOMAIN g |-> IF x \in DOMAIN f THEN f[x] ELSE g[x]]

Pick(options, from, to) ==
    IF from \in DOMAIN options THEN [x \in {to} |-> options[from]] ELSE << >>

\* Default(options): Logger, Timeout, Breaker, FastTrack (if enabled),
\* PollyJitter and the caller's extension stage, filtered and joined.
Default(options) ==
    join(<<Array(
        <<[kind |-> "Logger",
           options |-> Merge(WithOption("error", LoggerOrNoop(options, "logError")),
                             WithOption("warn", LoggerOrNoop(options, "logWarn")))],
          [kind |-> "Timeout", options |-> Pick(options, "timeout", "after")],
          [kind |-> "Breaker", options |-> Pick(options, "maxAttempts", "max")]>>
        \o (IF Opt(options, "fastTrack", FALSE)
            THEN <<[kind |-> "FastTrack"]>> ELSE <<>>)
        \o <<[kind |-> "PollyJitter",
              options |-> Merge(Pick(options, "initialDelay", "initial"),
                                Pick(options, "maxDelay", "max"))]>>
        \o (IF "next" \in DOMAIN options THEN <<options.next>> ELSE <<>>)
    )>>)

\* wrap: a function is the policy; anything else configures Default.
Wrap(policy) ==
    IF policy.isFunction THEN policy.chain ELSE Units(Default(policy.options))

\* ------------------------------------------------------------ the engine

VARIABLES
    policy,     \* what the function was wrapped with: a policy or Default's options
    callers,    \* the calls that are made of the wrapped function
    now,        \* Date.now()
    aborted,    \* signal.aborted
    factors,    \* the factors WeakMap of the chain's PollyJitter unit
    wrapped,    \* the Decorator's `wrapped`: empty, or the `this` the method is bound to
    call        \* per call: the position of exec, its RetryState, its promises and timers

vars == <<policy, callers, now, aborted, factors, wrapped, call>>

\* A call that has not been made yet.
Idle ==
    [pc |-> "idle", state |-> NewState(0), sig |-> FALSE, calls |-> 0,
     policyCalls |-> 0, inflight |-> 0, timers |-> {}, listeners |-> {},
     outcome |-> <<>>, logs |-> <<>>,
     \* for a call of a decorated method: the object it was called on and
     \* the `this` the method runs with
     receiver |-> <<>>, boundThis |-> <<>>,
     \* observations: what the policy last did (with the units it went
     \* through), and whether the signal was already aborted when the call
     \* was made
     decided |-> <<>>, preAborted |-> FALSE,
     \* observation: the call was made through wrapped(signal)
     viaSignal |-> FALSE]

\* `await fn(...input)`: the operation is invoked and exec awaits its promise.
Attempt(cr) ==
    [cr EXCEPT !.calls = @ + 1, !.inflight = @ + 1, !.pc = "fn"]

\* exec returns or throws: the promise of the call settles with v.
Settle(cr, v) == [cr EXCEPT !.outcome = Append(@, v), !.pc = "done"]

\* Mutant: exec passes a signal to wait for every call.
ExecAlwaysSignal(signal, start) ==
    Attempt([Idle EXCEPT !.state = NewState(start), !.sig = TRUE])

\* exec(...input) up to its first await; `signal` is set when the call was
\* made through wrapped(signal).
Exec(signal, start) ==
    Attempt([Idle EXCEPT !.state = NewState(start), !.sig = signal])

\* Mutant: only the first error is kept as state.error.
FailedKeepsFirstError(state, error, time) ==
    [state EXCEPT !.attempt = @ + 1,
                  !.elapsed = time - state.start,
                  !.error = IF state.error.kind = "null" THEN error ELSE state.error,
                  !.errors = Append(@, error)]

\* Mutant: the new error is put at the front of state.errors.
FailedPrepends(state, error, time) ==
    [state EXCEPT !.attempt = @ + 1,
                  !.elapsed = time - state.start,
                  !.error = error,
                  !.errors = <<error>> \o @]

\* Mutant: state.elapsed is the time since the previous failure.
FailedElapsedSinceLast(state, error, time) ==
    [state EXCEPT !.attempt = @ + 1,
                  !.elapsed = time - state.start - state.elapsed,
                  !.error = error,
                  !.errors = Append(@, error)]

\* The catch block's bookkeeping, before the policy is invoked.
Failed(state, error, time) ==
    [state EXCEPT !.attempt = @ + 1,
                  !.elapsed = time - state.start,
                  !.error = error,
                  !.errors = Append(@, error)]

\* Mutant: the signal is not looked at before the timer is set.
WaitNoAbortCheck(cr, ms, isAborted, time) ==
    [cr EXCEPT !.timers = @ \cup {[id |-> cr.state.attempt, due |-> time + Max(0, ms)]},
               !.listeners = IF cr.sig THEN @ \cup {cr.state.attempt} ELSE @,
               !.pc = "wait"]

\* Mutant: an aborted signal only shortens the wait to nothing.
WaitAbortedIsZero(cr, ms, isAborted, time) ==
    [cr EXCEPT !.timers = @ \cup {[id |-> cr.state.attempt,
                                   due |-> IF cr.sig /\ isAborted THEN time
                                           ELSE time + Max(0, ms)]},
               !.listeners = IF cr.sig THEN @ \cup {cr.state.attempt} ELSE @,
               !.pc = "wait"]

\* Mutant: the wait does not subscribe to the signal's abort event.
WaitNoListener(cr, ms, isAborted, time) ==
    IF cr.sig /\ isAborted
    THEN [cr EXCEPT !.outcome = Append(@, AbortReason), !.pc = "done"]
    ELSE [cr EXCEPT !.timers = @ \cup {[id |-> cr.state.attempt, due |-> time + Max(0, ms)]},
                    !.pc = "wait"]

\* Mutant: the rejection of wait is branded like a failure of the chain.
WaitWrapsReason(cr, ms, isAborted, time) ==
    IF cr.sig /\ isAborted
    THEN Settle(cr, RetryyyError(Append(cr.state.errors, AbortReason), AbortReason))
    ELSE [cr EXCEPT !.timers = @ \cup {[id |-> cr.state.attempt, due |-> time + Max(0, ms)]},
                    !.listeners = IF cr.sig THEN @ \cup {cr.state.attempt} ELSE @,
                    !.pc = "wait"]

\* `await wait(ms, signal)`: rejects at once when the signal is aborted,
\* else sets a timer and, when there is a signal, subscribes to its abort.
Wait(cr, ms, isAborted, time) ==
    IF cr.sig /\ isAborted
    THEN Settle(cr, AbortReason)
    ELSE [cr EXCEPT !.timers = @ \cup {[id |-> cr.state.attempt, due |-> time + Max(0, ms)]},
                    !.listeners = IF cr.sig THEN @ \cup {cr.state.attempt} ELSE @,
                    !.pc = "wait"]

\* Mutant: what the policy raises is replaced by the last operation error.
DecideThrowsLastError(cr, r, isAborted, time) ==
    LET cr1 == [cr EXCEPT !.policyCalls = @ + 1, !.logs = @ \o r.logs,
                          !.decided = <<[thrown |-> r.thrown,
                                         delay |-> IF r.thrown THEN 0 ELSE r.delay,
                                         err |-> IF r.thrown THEN r.err ELSE NoError,
                                         calls |-> r.calls]>>]
    IN
    IF r.thrown
    THEN [cr1 EXCEPT !.outcome = Append(@, cr.state.error), !.pc = "done"]
    ELSE [cr1 EXCEPT !.state.delay = r.delay,
                     !.timers = @ \cup {[id |-> cr.state.attempt, due |-> time + Max(0, r.delay)]},
                     !.listeners = IF cr.sig THEN @ \cup {cr.state.attempt} ELSE @,
                     !.pc = IF cr.sig /\ isAborted THEN "done" ELSE "wait",
                     !.outcome = IF cr.sig /\ isAborted THEN Append(@, AbortReason) ELSE @]

\* Mutant: the error of a failed attempt is delivered although a retry follows.
DecideLeaksError(cr, r, isAborted, time) ==
    LET cr1 == [cr EXCEPT !.policyCalls = @ + 1, !.logs = @ \o r.logs,
                          !.decided = <<[thrown |-> r.thrown,
                                         delay |-> IF r.thrown THEN 0 ELSE r.delay,
                                         err |-> IF r.thrown THEN r.err ELSE NoError,
                                         calls |-> r.calls]>>]
    IN
    IF r.thrown
    THEN [cr1 EXCEPT !.outcome = Append(@, r.err), !.pc = "done"]
    ELSE [cr1 EXCEPT !.state.delay = r.delay,
                     !.outcome = Append(@, cr.state.error),
                     !.timers = @ \cup {[id |-> cr.state.attempt, due |-> time + Max(0, r.delay)]},
                     !.pc = "wait"]

\* Mutant: state.delay is cleared when the policy throws.
DecideClearsDelay(cr, r, isAborted, time) ==
    LET cr1 == [cr EXCEPT !.policyCalls = @ + 1, !.logs = @ \o r.logs,
                          !.decided = <<[thrown |-> r.thrown,
                                         delay |-> IF r.thrown THEN 0 ELSE r.delay,
                                         err |-> IF r.thrown THEN r.err ELSE NoError,
                                         calls |-> r.calls]>>]
    IN
    IF r.thrown
    THEN Settle([cr1 EXCEPT !.state.delay = 0], r.err)
    ELSE Wait([cr1 EXCEPT !.state.delay = r.delay], r.delay, isAborted, time)

\* `state.delay = policy(state)` and what follows: r is what the policy did.
Decide(cr, r, isAborted, time) ==
    LET cr1 == [cr EXCEPT !.policyCalls = @ + 1, !.logs = @ \o r.logs,
                          !.decided = <<[thrown |-> r.thrown,
                                         delay |-> IF r.thrown THEN 0 ELSE r.delay,
                                         err |-> IF r.thrown THEN r.err ELSE NoError,
                                         calls |-> r.calls]>>]
    IN
    IF r.thrown
    THEN Settle(cr1, r.err)
    ELSE Wait([cr1 EXCEPT !.state.delay = r.delay], r.delay, isAborted, time)

\* The catch block for the rejection of attempt number cr.calls of call c.
Catch(cr, c, chain, fac, rs, isAborted, time) ==
    LET s1 == Failed(cr.state, OpError(c, cr.calls), time)
        r  == Invoke(chain, 1, s1, c, Effects(fac), rs)
    IN [cr |-> Decide([cr EXCEPT !.inflight = @ - 1, !.state = s1], r, isAborted, time),
        fac |-> r.fac]

\* Mutant: the policy is consulted for a successful attempt too.
ReturnConsultsPolicy(cr, c) ==
    [cr EXCEPT !.inflight = @ - 1, !.policyCalls = @ + 1,
               !.outcome = Append(@, OpValue(c, cr.calls)), !.pc = "done"]

\* `return await fn(...input)` when the operation resolves.
Return_(cr, c) == Settle([cr EXCEPT !.inflight = @ - 1], OpValue(c, cr.calls))

\* Mutant: the timer is an interval, it stays pending after it fired.
FireKeepsTimer(cr, tm) ==
    IF cr.pc = "wait" /\ cr.state.attempt = tm.id
    THEN [cr EXCEPT !.calls = @ + 1, !.inflight = @ + 1, !.pc = "fn"]
    ELSE cr

\* setTimeout's callback: resolve the wait; exec, if it awaits it, loops.
Fire(cr, tm) ==
    LET cr1 == [cr EXCEPT !.timers = @ \ {tm}] IN
    IF cr.pc = "wait" /\ cr.state.attempt = tm.id THEN Attempt(cr1) ELSE cr1

\* Mutant: the abort also ends a call whose attempt is in flight.
OnAbortInterrupts(cr) ==
    LET cr1 == [cr EXCEPT !.timers = {tm \in @ : tm.id \notin cr.listeners}] IN
    IF (cr.pc = "wait" /\ cr.state.attempt \in cr.listeners) \/ (cr.pc = "fn" /\ cr.sig)
    THEN Settle(cr1, AbortReason)
    ELSE cr1

\* Mutant: the reason is recorded as the error of one more failed attempt.
OnAbortRecordsReason(cr) ==
    LET cr1 == [cr EXCEPT !.timers = {tm \in @ : tm.id \notin cr.listeners}] IN
    IF cr.pc = "wait" /\ cr.state.attempt \in cr.listeners
    THEN [cr1 EXCEPT !.state.error = AbortReason,
                     !.state.errors = Append(@, AbortReason),
                     !.outcome = Append(@, AbortReason),
                     !.pc = "done"]
    ELSE cr1

\* The abort listeners of a call: clearTimeout(timer) and reject(signal.reason).
OnAbort(cr) ==
    LET cr1 == [cr EXCEPT !.timers = {tm \in @ : tm.id \notin cr.listeners}] IN
    IF cr.pc = "wait" /\ cr.state.attempt \in cr.listeners
    THEN Settle(cr1, AbortReason)
    ELSE cr1

\* ------------------------------------------------------------ the actions

\* wrapped(...input), or wrapped(signal)(...input) when withSignal.
CallWith(c, withSignal) ==
    /\ c \in callers
    /\ call[c].pc = "idle"
    /\ call' = [call EXCEPT ![c] = [Exec(withSignal, now) EXCEPT
                                        !.preAborted = withSignal /\ aborted,
                                        !.viaSignal = withSignal]]
    /\ UNCHANGED <<policy, callers, now, aborted, factors, wrapped>>

Call(c) == \E withSignal \in BOOLEAN : CallWith(c, withSignal)

\* wrapped(signal): isAbortArgs holds, `signal` of this invocation is set
\* and exec is returned without being called.
BindSignal(c) ==
    /\ c \in callers
    /\ call[c].pc = "idle"
    /\ call' = [call EXCEPT ![c] = [Idle EXCEPT !.pc = "bound", !.sig = TRUE,
                                                !.viaSignal = TRUE]]
    /\ UNCHANGED <<policy, callers, now, aborted, factors, wrapped>>

\* bound(...input), bound being what wrapped(signal) returned.
CallBound(c) ==
    /\ call[c].pc = "bound"
    /\ call' = [call EXCEPT ![c] = [Exec(call[c].sig, now) EXCEPT
                                        !.preAborted = aborted, !.viaSignal = TRUE]]
    /\ UNCHANGED <<policy, callers, now, aborted, factors, wrapped>>

\* Decorated's `wrapped = wrapped ?? wrap(target.bind(this), policy)`: what
\* `wrapped` is bound to after a call of the method on the object inst.
Decorated(w, inst) == IF w = << >> THEN <<inst>> ELSE w

\* obj.method(...args) of a method decorated with @Retryyy(policy), on the
\* object inst: Decorated wraps the method if it has not been yet and calls
\* wrapped(...args).
DecoratedCall(c, inst) ==
    /\ c \in callers
    /\ call[c].pc = "idle"
    /\ wrapped' = Decorated(wrapped, inst)
    /\ call' = [call EXCEPT ![c] = [Exec(FALSE, now) EXCEPT
                                        !.receiver = <<inst>>,
                                        !.boundThis = Decorated(wrapped, inst)]]
    /\ UNCHANGED <<policy, callers, now, aborted, factors>>

\* The operation's promise resolves.
FnResolve(c) ==
    /\ call[c].pc = "fn"
    /\ call' = [call EXCEPT ![c] = Return_(call[c], c)]
    /\ UNCHANGED <<policy, callers, now, aborted, factors, wrapped>>

\* The operation's promise rejects (or the operation throws).
FnReject(c) ==
    /\ call[c].pc = "fn"
    /\ \E rs \in [RandomUnits(Wrap(policy)) -> Rnd] :
          LET res == Catch(call[c], c, Wrap(policy), factors, rs, aborted, now) IN
          /\ call' = [call EXCEPT ![c] = res.cr]
          /\ factors' = res.fac
    /\ UNCHANGED <<policy, callers, now, aborted, wrapped>>

\* A timer of call c is due and its callback runs.
TimerFire(c) ==
    /\ call[c].calls < MaxCalls
    /\ \E tm \in call[c].timers :
          /\ now >= tm.due
          /\ call' = [call EXCEPT ![c] = Fire(call[c], tm)]
    /\ UNCHANGED <<policy, callers, now, aborted, factors, wrapped>>

\* controller.abort(reason): every listener on the signal runs.
Abort ==
    /\ ~aborted
    /\ aborted' = TRUE
    /\ call' = [c \in Calls |-> OnAbort(call[c])]
    /\ UNCHANGED <<policy, callers, now, factors, wrapped>>

\* A millisecond passes.
Tick ==
    /\ now < MaxNow
    /\ now' = now + 1
    /\ UNCHANGED <<policy, callers, aborted, factors, wrapped, call>>

\* Time passes until a pending timer is due.
Sleep ==
    /\ \E c \in Calls : \E tm \in call[c].timers :
          /\ tm.due > now
          /\ now' = tm.due
    /\ UNCHANGED <<policy, callers, aborted, factors, wrapped, call>>

Next ==
    \/ \E c \in Calls : Call(c)
    \/ \E c \in Calls : FnResolve(c)
    \/ \E c \in Calls : FnReject(c)
    \/ \E c \in Calls : TimerFire(c)
    \/ Abort
    \/ Tick
    \/ Sleep

\* ------------------------------------------------------- configurations

\* The options of the retryyy tests (TEST_OPTIONS), with a timeout that
\* cannot trip within the bounds (350), trips after the first wait (20) or
\* can trip on the first failure (2).
TestOptions(timeout) ==
    [initialDelay |-> 15, timeout |-> timeout, logError |-> "false", logWarn |-> "false"]

\* Default-composite configurations: maxAttempts absent or 0..3.
DefaultPolicies ==
    {[isFunction |-> FALSE, options |-> Merge(o, a)] :
        o \in {TestOptions(350), TestOptions(20),
               Merge([fastTrack |-> TRUE], TestOptions(350))},
        a \in {<< >>} \cup {[maxAttempts |-> n] : n \in 0..3}}
    \cup {[isFunction |-> FALSE, options |-> Merge(TestOptions(2), [maxAttempts |-> 3])]}

\* Custom policies handed to core()/retryyy() as functions.
CustomPolicies ==
    {[isFunction |-> TRUE, chain |-> ch] :
        ch \in {<<[kind |-> "GiveUpAt", k |-> k]>> : k \in 1..3}
               \cup {<<[kind |-> "ThrowIfError"]>>,
                     <<[kind |-> "BrandError"],
                       [kind |-> "Breaker", options |-> [max |-> 2]],
                       [kind |-> "PollyJitter", options |-> [initial |-> 15]]>>}}

InitWith(policies, who) ==
    /\ policy \in policies
    /\ callers = who
    /\ now = 0
    /\ aborted = FALSE
    /\ factors = << >>
    /\ wrapped = << >>
    /\ call = [c \in Calls |-> Idle]

\* One call of a function wrapped with any of the configurations.
Init == InitWith(DefaultPolicies \cup CustomPolicies, {1})

Spec == Init /\ [][Next]_vars

\* Two concurrent calls of one function wrapped with a default composite:
\* both calls share the chain and its PollyJitter unit.
ConcurrentPolicies ==
    {[isFunction |-> FALSE, options |-> Merge(TestOptions(350), [maxAttempts |-> 3])]}

InitConcurrent == InitWith(ConcurrentPolicies, Calls)

\* The steps of the two calls in every order; the clock moves only from one
\* timer deadline to the next (attempts take no time).
NextConcurrent ==
    \/ \E c \in Calls : Call(c)
    \/ \E c \in Calls : FnResolve(c)
    \/ \E c \in Calls : FnReject(c)
    \/ \E c \in Calls : TimerFire(c)
    \/ Abort
    \/ Sleep

SpecConcurrent == InitConcurrent /\ [][NextConcurrent]_vars

\* Chains built from single units, handed to core() as its policy: Breaker,
\* Timeout and FastTrack alone, before a fixed delay, before a policy that
\* gives up, and combined; and the default composite with fastTrack.
UnitChains ==
    {<<[kind |-> "Breaker", options |-> [max |-> m]]>> : m \in 1..2}
    \cup {<<[kind |-> "Breaker", options |-> [max |-> m]],
            [kind |-> "FixedDelay", delay |-> 100]>> : m \in 1..3}
    \cup {<<[kind |-> "Timeout", options |-> [after |-> 2]]>>}
    \cup {<<[kind |-> "Timeout", options |-> [after |-> a]],
            [kind |-> "FixedDelay", delay |-> 100]>> : a \in {2, 250}}
    \cup {<<[kind |-> "Timeout", options |-> [after |-> 250]],
            [kind |-> "Breaker", options |-> [max |-> 3]],
            [kind |-> "FixedDelay", delay |-> 100]>>}
    \cup {<<[kind |-> "FastTrack"], [kind |-> "FixedDelay", delay |-> 100]>>}
    \cup {<<[kind |-> "FastTrack"], [kind |-> "GiveUpAt", k |-> k]>> : k \in 1..2}
    \cup {<<[kind |-> "Breaker", options |-> [max |-> 3]],
            [kind |-> "FastTrack"],
            [kind |-> "FixedDelay", delay |-> 100]>>}

UnitPolicies ==
    {[isFunction |-> TRUE, chain |-> ch] : ch \in UnitChains}
    \cup {[isFunction |-> FALSE,
            options |-> Merge([fastTrack |-> TRUE, maxAttempts |-> 3], TestOptions(350))]}

InitUnits == InitWith(UnitPolicies, {1})

SpecUnits == InitUnits /\ [][Next]_vars

\* Every argument list of join that flattens to `units`: the units are cut
\* into consecutive groups, a group being passed as an array or, when it is
\* one unit, also as the policy itself.
RECURSIVE ArgLists(_)
ArgLists(units) ==
    IF units = <<>> THEN {<<>>}
    ELSE UNION {
        {<<a>> \o rest :
            a \in {Array(SubSeq(units, 1, n))} \cup (IF n = 1 THEN {units[1]} ELSE {}),
            rest \in ArgLists(SubSeq(units, n + 1, Len(units)))} :
        n \in 1..Len(units)}

\* The unit lists of the join tests, one of library units, and the lists of
\* fewer than two units.
JoinUnitLists ==
    {<<>>,
     <<[kind |-> "Policy1"]>>,
     <<[kind |-> "Policy1"], [kind |-> "Policy2"]>>,
     <<[kind |-> "Policy1"], [kind |-> "Policy1"], [kind |-> "Policy2"]>>,
     <<[kind |-> "Breaker", options |-> [max |-> 2]], [kind |-> "FastTrack"],
       [kind |-> "Policy2"]>>,
     <<[kind |-> "FixedDelay", delay |-> 100], [kind |-> "FixedDelay", delay |-> 200],
       [kind |-> "FixedDelay", delay |-> 300]>>}

\* core(fn, join(...args)) for every argument list join returns a policy for.
JoinPolicies ==
    UNION {
        {[isFunction |-> TRUE, units |-> units, args |-> args,
          chain |-> Units(join(args))] :
            args \in {a \in ArgLists(units) : join(a).kind # "TypeError"}} :
        units \in JoinUnitLists}

\* retryyy(fn, { ...options, next }): the default composite with an
\* extension stage.
ExtensionPolicies ==
    {[isFunction |-> FALSE,
      options |-> Merge([next |-> P, maxAttempts |-> 3], TestOptions(350))] :
        P \in {[kind |-> "GiveUpAt", k |-> 2], [kind |-> "Policy2"]}}

InitJoin == InitWith(JoinPolicies \cup ExtensionPolicies, {1})

SpecJoin == InitJoin /\ [][Next]_vars

\* Chains that end in a unit that delegates: FastTrack, Logger and
\* BrandError as the sole policy or last in a chain, and Logger and
\* BrandError before units that return a delay or give up.
TailChains ==
    {<<[kind |-> "FastTrack"]>>,
     <<[kind |-> "Breaker", options |-> [max |-> 3]], [kind |-> "FastTrack"]>>,
     <<[kind |-> "Logger", options |-> << >>]>>,
     <<[kind |-> "Logger", options |-> [warn |-> "custom", error |-> "custom"]],
       [kind |-> "Breaker", options |-> [max |-> 2]],
       [kind |-> "FixedDelay", delay |-> 100]>>,
     <<[kind |-> "Logger", options |-> << >>],
       [kind |-> "Logger", options |-> [warn |-> "custom", error |-> "custom"]],
       [kind |-> "GiveUpAt", k |-> 2]>>,
     <<[kind |-> "BrandError"]>>,
     <<[kind |-> "Logger", options |-> << >>], [kind |-> "BrandError"],
       [kind |-> "Breaker", options |-> [max |-> 3]],
       [kind |-> "FixedDelay", delay |-> 100]>>,
     <<[kind |-> "BrandError"], [kind |-> "Logger", options |-> << >>]>>}

TailPolicies == {[isFunction |-> TRUE, chain |-> ch] : ch \in TailChains}

InitTail == InitWith(TailPolicies, {1})

SpecTail == InitTail /\ [][Next]_vars

\* wrap(fn) and retryyy(fn): Default() built from no configuration.
NoConfigPolicies == {[isFunction |-> FALSE, options |-> << >>]}

InitNoConfig == InitWith(NoConfigPolicies, {1})

SpecNoConfig == InitNoConfig /\ [][Next]_vars

\* Backoff's options: the defaults, the configurations of Backoff.test.ts
\* (delay 100 exp 3; delay 1000 exp 2 max 3000), a constant and a shrinking
\* delay, and the options the test expects a TypeError for.
BackoffOptions ==
    {<< >>,
     [delay |-> 100, exp |-> [num |-> 3, den |-> 1]],
     [delay |-> 1000, exp |-> [num |-> 2, den |-> 1], max |-> 3000],
     [delay |-> 100, exp |-> [num |-> 1, den |-> 1]],
     [delay |-> 1600, exp |-> [num |-> 1, den |-> 2]],
     [delay |-> 0], [delay |-> -1],
     [exp |-> [num |-> 0, den |-> 1]], [exp |-> [num |-> -1, den |-> 1]],
     [delay |-> 0, exp |-> [num |-> 0, den |-> 1]]}

\* What follows Backoff in the chain: nothing, a policy that returns a
\* delay of its own, or one that gives up at the third failure.
BackoffTails ==
    {<< >>, <<[kind |-> "FixedDelay", delay |-> 100]>>, <<[kind |-> "GiveUpAt", k |-> 3]>>}

\* core(fn, join(Backoff(options), ...tail)): when Backoff throws there is
\* no policy, no wrapped function and so no caller.
BackoffPolicies ==
    {[isFunction |-> TRUE, options |-> o, built |-> Backoff(o),
      chain |-> IF Backoff(o).kind = "TypeError" THEN << >> ELSE <<Backoff(o)>> \o t] :
        o \in BackoffOptions, t \in BackoffTails}

InitBackoff ==
    /\ policy \in BackoffPolicies
    /\ callers = IF policy.built.kind = "TypeError" THEN {} ELSE {1}
    /\ now = 0
    /\ aborted = FALSE
    /\ factors = << >>
    /\ wrapped = << >>
    /\ call = [c \in Calls |-> Idle]

SpecBackoff == InitBackoff /\ [][Next]_vars

\* The instances of the class whose method is decorated.
Instances == {"model", "other"}

\* A method decorated with @Retryyy(TEST_OPTIONS), as in the Retryyy test,
\* here with two attempts at most, called once on each of two objects or
\* twice on one of them.
DecoratedPolicies ==
    {[isFunction |-> FALSE, options |-> Merge(TestOptions(350), [maxAttempts |-> 2])]}

InitDecorated == InitWith(DecoratedPolicies, Calls)

NextDecorated ==
    \/ \E c \in Calls : \E inst \in Instances : DecoratedCall(c, inst)
    \/ \E c \in Calls : FnResolve(c)
    \/ \E c \in Calls : FnReject(c)
    \/ \E c \in Calls : TimerFire(c)
    \/ Sleep

SpecDecorated == InitDecorated /\ [][NextDecorated]_vars

\* Two uses of one wrapped function, each either a direct call
\* wrapped(...input) or wrapped(signal) followed by a call of what it
\* returned, with the signal aborted at any moment.
BoundPolicies ==
    {[isFunction |-> FALSE, options |-> Merge(TestOptions(350), [maxAttempts |-> 2])]}

InitBound == InitWith(BoundPolicies, Calls)

NextBound ==
    \/ \E c \in Calls : CallWith(c, FALSE)
    \/ \E c \in Calls : BindSignal(c)
    \/ \E c \in Calls : CallBound(c)
    \/ \E c \in Calls : FnResolve(c)
    \/ \E c \in Calls : FnReject(c)
    \/ \E c \in Calls : TimerFire(c)
    \/ Abort
    \/ Sleep

SpecBound == InitBound /\ [][NextBound]_vars

\* The units that throw when they are called without a next.
ClosingUnits ==
    {[kind |-> "Breaker", options |-> [max |-> 3]],
     [kind |-> "Timeout", options |-> [after |-> 250]],
     [kind |-> "Logger", options |-> << >>],
     Jitter(<< >>), FullJitter, EqualJitter,
     [kind |-> "BrandError"]}

\* Chains that end in one of them: the unit alone, or after units that all
\* call their next (a Logger, a Breaker that has not tripped, FastTrack,
\* Backoff).
ClosedChains ==
    {<<u>> : u \in ClosingUnits}
    \cup {<<[kind |-> "Logger", options |-> [warn |-> "custom", error |-> "custom"]], u>> :
            u \in ClosingUnits}
    \cup {<<[kind |-> "Breaker", options |-> [max |-> 2]], [kind |-> "FastTrack"], u>> :
            u \in ClosingUnits}
    \cup {<<Backoff(<< >>), u>> : u \in ClosingUnits}

\* The same units with a next that returns a delay.
OpenChains == {<<u, [kind |-> "FixedDelay", delay |-> 100]>> : u \in ClosingUnits}

ClosedPolicies ==
    {[isFunction |-> TRUE, closed |-> TRUE, chain |-> ch] : ch \in ClosedChains}
    \cup {[isFunction |-> TRUE, closed |-> FALSE, chain |-> ch] : ch \in OpenChains}

InitClosed == InitWith(ClosedPolicies, {1})

SpecClosed == InitClosed /\ [][Next]_vars

\* The jitters over an upstream delay: the 100 ms of JItter.test.ts, 0,
\* 2000, 4000, and the growing delays of Backoff() (150, 300, 600, ...).
JitterUnits ==
    {Jitter(<< >>), Jitter([range |-> 1000]), Jitter([offset |-> -250, range |-> 500]),
     FullJitter, EqualJitter}

JitterChains ==
    {<<u, [kind |-> "FixedDelay", delay |-> d]>> : u \in JitterUnits, d \in {0, 100, 2000, 4000}}
    \cup {<<u, Backoff(<< >>)>> : u \in JitterUnits}

JitterPolicies == {[isFunction |-> TRUE, jitter |-> TRUE, chain |-> ch] : ch \in JitterChains}

InitJitter == InitWith(JitterPolicies, {1})

SpecJitter == InitJitter /\ [][Next]_vars

\* DecorrelatedJitter as in JItter.test.ts (initial 50, max 1500) and with
\* its defaults: alone, before a policy that returns a delay, and after
\* FastTrack, which commits a delay of 0 for the first failure.
DecorrelatedChains ==
    {<<[kind |-> "DecorrelatedJitter", options |-> o]>> \o t :
        o \in {<< >>, [initial |-> 50, max |-> 1500]},
        t \in {<< >>, <<[kind |-> "FixedDelay", delay |-> 100]>>}}
    \cup {<<[kind |-> "FastTrack"],
            [kind |-> "DecorrelatedJitter", options |-> [initial |-> 50, max |-> 1500]]>>}

DecorrelatedPolicies ==
    {[isFunction |-> TRUE, decorrelated |-> TRUE, chain |-> ch] : ch \in DecorrelatedChains}

InitDecorrelated == InitWith(DecorrelatedPolicies, {1})

SpecDecorrelated == InitDecorrelated /\ [][Next]_vars

\* The default composite with maxAttempts 1..3, a timeout that cannot trip
\* and its log sinks in use: the console (no option) or the caller's
\* functions.
LoggedPolicies ==
    {[isFunction |-> FALSE,
      options |-> Merge(Merge([initialDelay |-> 15, timeout |-> 350], [maxAttempts |-> n]), o)] :
        n \in 1..3,
        o \in {<< >>, [logWarn |-> "custom", logError |-> "custom"]}}

InitLogged == InitWith(LoggedPolicies, {1})

SpecLogged == InitLogged /\ [][Next]_vars

\* The default composite with a finite maxAttempts (1..3), with a timeout
\* that cannot trip and one that trips after the first wait, with and
\* without fastTrack.
LivePolicies ==
    {[isFunction |-> FALSE, options |-> Merge(Merge(o, [maxAttempts |-> n]), f)] :
        o \in {TestOptions(350), TestOptions(20)},
        n \in 1..3,
        f \in {<< >>, [fastTrack |-> TRUE]}}

InitLive == InitWith(LivePolicies, {1})

\* Every attempt completes (fn's promise settles) and every timer fires
\* (time reaches its deadline and its callback runs).
Fairness ==
    \A c \in Calls :
        /\ WF_vars(FnResolve(c) \/ FnReject(c))
        /\ WF_vars(TimerFire(c))
        /\ WF_vars(Sleep)

SpecLive == InitLive /\ [][Next]_vars /\ Fairness

\* wrap(fn, { ...options, next }): the default composite, logging to the
\* console, with an extension stage that gives up at the second failure
\* with state.error, returns a delay of its own (1000 ms per failure), or
\* gives up at the third failure with an error of its own.
StagedPolicies ==
    {[isFunction |-> FALSE,
      options |-> Merge(Merge([next |-> P, maxAttempts |-> n],
                              [initialDelay |-> 15, timeout |-> t]), f)] :
        P \in {[kind |-> "GiveUpAt", k |-> 2], [kind |-> "Policy2"], [kind |-> "Policy1"]},
        n \in {2, 4},
        t \in {350, 20},
        f \in {<< >>, [fastTrack |-> TRUE]}}

InitStaged == InitWith(StagedPolicies, {1})

SpecStaged == InitStaged /\ [][Next]_vars

\* ------------------------------------------------------------ the claims

Done(c) == call[c].pc = "done"

\* The one outcome of a call that has ended.
Outcome(c) == call[c].outcome[1]

\* The function was wrapped with options for the default composite.
IsDefault == ~policy.isFunction

\* Default's maxAttempts and timeout, as configured.
MaxAttempts == Opt(policy.options, "maxAttempts", BreakerDefaultMax)

TimeoutAfter == Opt(policy.options, "timeout", TimeoutDefaultAfter)

\* Timeout's test on the state a call ended with.
TimeoutTripped(c) == call[c].state.elapsed > TimeoutAfter - call[c].state.delay

\* C1 as stated, for N >= 1: under every default composite with
\* maxAttempts = N, a call that ends with the terminal operation error has
\* invoked the operation exactly N times.
C1_AsStated ==
    \A c \in Calls :
        (IsDefault /\ "maxAttempts" \in DOMAIN policy.options /\ MaxAttempts >= 1
                   /\ Done(c) /\ Outcome(c).kind = "op")
            => call[c].calls = MaxAttempts

\* C1 (amended): under a default composite with maxAttempts = N >= 1 the
\* operation is never invoked more than N times, and a call that ends with
\* the terminal operation error without Timeout having given up on the last
\* failure has invoked the operation exactly N times.
C1_ExactlyMaxAttempts ==
    \A c \in Calls :
        (IsDefault /\ "maxAttempts" \in DOMAIN policy.options /\ MaxAttempts >= 1)
            => /\ call[c].calls <= MaxAttempts
               /\ (Done(c) /\ Outcome(c).kind = "op" /\ ~TimeoutTripped(c))
                     => /\ call[c].calls = MaxAttempts
                        /\ Outcome(c) = OpError(c, MaxAttempts)

C1_Witness ==
    /\ IsDefault /\ "maxAttempts" \in DOMAIN policy.options /\ MaxAttempts = 3
    /\ Done(1) /\ Outcome(1).kind = "op" /\ ~TimeoutTripped(1)
    /\ call[1].calls = 3

\* The policy is the one of core.test.ts with threshold k.
IsGiveUpAt == policy.isFunction /\ Len(policy.chain) = 1 /\ policy.chain[1].kind = "GiveUpAt"

\* C2: with the policy "delay 0 while attempt < K, throw state.error once
\* attempt >= K" and no signal, a call whose operation always fails ends
\* after exactly K invocations of the operation and K of the policy, with
\* the error of the K-th attempt.
C2_GiveUpAtK ==
    \A c \in Calls :
        (IsGiveUpAt /\ ~call[c].sig /\ Done(c) /\ Outcome(c).kind # "value")
            => /\ call[c].calls = policy.chain[1].k
               /\ call[c].policyCalls = policy.chain[1].k
               /\ Outcome(c) = OpError(c, policy.chain[1].k)

C2_Witness ==
    /\ IsGiveUpAt /\ policy.chain[1].k = 3 /\ ~call[1].sig
    /\ Done(1) /\ Outcome(1) = OpError(1, 3) /\ call[1].policyCalls = 3

\* C3 as stated: a call made with an already aborted signal fails at once
\* with the reason, the operation never being invoked.
C3_AsStated ==
    \A c \in Calls :
        call[c].preAborted
            => call[c].calls = 0 /\ Done(c) /\ Outcome(c) = AbortReason

\* C3 (amended): a call made with an already aborted signal still invokes
\* the operation, exactly once; it never waits and never retries, and it
\* fails with the reason only if that one attempt fails and the policy
\* returns a delay for it (a successful attempt's value is returned, and
\* what the policy raises is raised).
C3_AbortedBeforeStart ==
    \A c \in Calls :
        call[c].preAborted
            => /\ call[c].calls = 1
               /\ call[c].pc \in {"fn", "done"}
               /\ call[c].timers = {}
               /\ Done(c) =>
                    \/ Outcome(c) = OpValue(c, 1)
                    \/ /\ call[c].decided # <<>>
                       /\ call[c].decided[1].thrown
                       /\ Outcome(c) = call[c].decided[1].err
                    \/ /\ call[c].decided # <<>>
                       /\ ~call[c].decided[1].thrown
                       /\ Outcome(c) = AbortReason

C3_Witness ==
    /\ call[1].preAborted /\ Done(1) /\ Outcome(1) = AbortReason
    /\ call[1].calls = 1 /\ ~call[1].decided[1].thrown

\* C4 as stated: with the signal already aborted and the operation failing,
\* retryyy(fn, options, signal) invokes fn once and rejects with the reason.
C4_AsStated ==
    \A c \in Calls :
        (IsDefault /\ call[c].preAborted /\ Done(c) /\ Outcome(c).kind # "value")
            => call[c].calls = 1 /\ Outcome(c) = AbortReason

\* C4 (amended): with the signal already aborted and the operation failing,
\* retryyy(fn, options, signal) invokes fn exactly once and starts no retry;
\* it rejects with the reason when the default composite returns a delay for
\* that failure, and with fn's error when it gives up on it (maxAttempts <= 1
\* or the timeout already exceeded).
C4_AbortedFirstFailure ==
    \A c \in Calls :
        (IsDefault /\ call[c].preAborted /\ Done(c) /\ Outcome(c).kind # "value")
            => /\ call[c].calls = 1
               /\ call[c].policyCalls = 1
               /\ call[c].timers = {}
               /\ Outcome(c) = IF MaxAttempts <= 1 \/ call[c].state.elapsed > TimeoutAfter
                               THEN OpError(c, 1)
                               ELSE AbortReason

C4_Witness ==
    /\ IsDefault /\ MaxAttempts = 3 /\ call[1].preAborted
    /\ Done(1) /\ Outcome(1) = AbortReason /\ call[1].state.attempt = 1

\* C5: an abort that arrives while a call waits between attempts ends the
\* wait in the same step (its timer is cleared), the call fails with the
\* reason and the operation is not invoked again; under a default composite
\* the number of invocations is then below maxAttempts, and above one when
\* the abort arrives after the first retry.  No call changes once it ended.
C5_AbortDuringWait ==
    [][\A c \in Calls :
          /\ (~aborted /\ aborted' /\ call[c].pc = "wait" /\ call[c].sig)
                => /\ call'[c].pc = "done"
                   /\ call'[c].outcome = <<AbortReason>>
                   /\ call'[c].timers = {}
                   /\ call'[c].calls = call[c].calls
                   /\ call'[c].state = call[c].state
                   /\ IsDefault => call'[c].calls < MaxAttempts
                   /\ call[c].state.attempt >= 2 => call'[c].calls > 1
          /\ call[c].pc = "done" => call'[c] = call[c]]_vars

C5_Witness ==
    /\ IsDefault /\ MaxAttempts = 3
    /\ call[1].sig /\ ~call[1].preAborted
    /\ Done(1) /\ Outcome(1) = AbortReason
    /\ call[1].state.attempt \in call[1].listeners
    /\ call[1].calls = 2

\* C6: when the policy raises for a failed attempt the call ends in that
\* step with exactly the raised value: no timer and no abort listener is
\* set for that failure and no attempt is in flight.
C6_PolicyRaises ==
    \A c \in Calls :
        (call[c].decided # <<>> /\ call[c].decided[1].thrown)
            => /\ Done(c)
               /\ call[c].outcome = <<call[c].decided[1].err>>
               /\ call[c].timers = {}
               /\ call[c].state.attempt \notin call[c].listeners
               /\ call[c].inflight = 0
               /\ call[c].calls = call[c].state.attempt
               /\ call[c].policyCalls = call[c].state.attempt

C6_Witness ==
    /\ call[1].decided # <<>> /\ call[1].decided[1].thrown
    /\ Done(1) /\ Outcome(1).kind = "aggregate"
    /\ Outcome(1) # call[1].state.error
    /\ call[1].calls = 2

\* C7: a call that ended with a value ended with the value of its last
\* attempt; after k failures and the success the operation was invoked k+1
\* times and the policy k times, and nothing is pending.
C7_SuccessReturns ==
    \A c \in Calls :
        (Done(c) /\ Outcome(c).kind = "value")
            => /\ Outcome(c) = OpValue(c, call[c].calls)
               /\ call[c].calls = Len(call[c].state.errors) + 1
               /\ call[c].policyCalls = Len(call[c].state.errors)
               /\ call[c].timers = {}
               /\ call[c].inflight = 0

C7_Witness ==
    /\ Done(1) /\ Outcome(1) = OpValue(1, 3)
    /\ Len(call[1].state.errors) = 2 /\ call[1].policyCalls = 2

C9_Sequential ==
    /\ [](\A c \in Calls :
            /\ call[c].inflight <= 1
            /\ Cardinality(call[c].timers) <= 1
            /\ call[c].inflight + Cardinality(call[c].timers) <= 1)
    /\ [][\A c \in Calls :
            (call[c].calls >= 1 /\ call'[c].calls # call[c].calls)
                => /\ call'[c].calls = call[c].calls + 1
                   /\ call[c].pc = "wait"
                   /\ call[c].inflight = 0
                   /\ call[c].state.attempt = call[c].calls
                   /\ ~call[c].decided[1].thrown
                   /\ call[c].state.delay = call[c].decided[1].delay
                   /\ \E tm \in call[c].timers :
                         /\ tm.id = call[c].state.attempt
                         /\ now >= tm.due
                         /\ tm \notin call'[c].timers]_vars

C9_Witness ==
    /\ call[1].calls = 3 /\ call[1].inflight = 1 /\ call[1].timers = {}
    /\ call[1].state.attempt = 2

\* The PollyJitter units of the wrapped function's chain.
PollyUnits == RandomUnits(Wrap(policy))

\* The attempt for which PollyJitter was last evaluated on behalf of call c
\* (0: never): it is evaluated for every failure the chain returns a delay for.
LastJittered(c) ==
    IF call[c].decided # <<>> /\ call[c].decided[1].thrown
    THEN call[c].state.attempt - 1
    ELSE call[c].state.attempt

\* The failures of call c so far.
Failures(c) ==
    call[c].calls - call[c].inflight
        - (IF Done(c) /\ Outcome(c).kind = "value" THEN 1 ELSE 0)

\* C10: with two concurrent calls sharing one chain, each call's RetryState
\* holds that call's failures only (attempt, error, errors), PollyJitter's
\* table has an entry for a call's state exactly when it was evaluated for
\* that call and the entry is the factor of that call's own last attempt;
\* a step of one call leaves the other call and its entry untouched, and the
\* delay a call gets is computed from its own previous factor.
C10_IndependentCalls ==
    /\ [](\A c \in Calls :
            /\ call[c].state.attempt = Failures(c)
            /\ call[c].state.errors = [k \in 1..Failures(c) |-> OpError(c, k)]
            /\ Failures(c) >= 1 => call[c].state.error = OpError(c, Failures(c))
            /\ \A i \in PollyUnits :
                  /\ (<<i, c>> \in DOMAIN factors) <=> (LastJittered(c) >= 1)
                  /\ (<<i, c>> \in DOMAIN factors) =>
                        factors[<<i, c>>] \in
                            {PollyCurve((LastJittered(c) - 1) * 1000 + r) : r \in Rnd})
    /\ [](DOMAIN factors \subseteq PollyUnits \X Calls)
    /\ [][\A c \in Calls :
            (call'[c].policyCalls # call[c].policyCalls)
                => /\ \A d \in Calls \ {c} :
                        /\ call'[d] = call[d]
                        /\ \A i \in PollyUnits :
                              /\ (<<i, d>> \in DOMAIN factors') = (<<i, d>> \in DOMAIN factors)
                              /\ (<<i, d>> \in DOMAIN factors) =>
                                    factors'[<<i, d>>] = factors[<<i, d>>]
                   /\ ~call'[c].decided[1].thrown =>
                        \A i \in PollyUnits : \E r \in Rnd :
                            LET prev == IF <<i, c>> \in DOMAIN factors
                                        THEN factors[<<i, c>>] ELSE 0
                                curr == PollyCurve((call'[c].state.attempt - 1) * 1000 + r)
                            IN /\ factors'[<<i, c>>] = curr
                               /\ call'[c].state.delay =
                                    Min(Opt(policy.options, "maxDelay", PollyDefaultMax),
                                        ((curr - prev)
                                          * Opt(policy.options, "initialDelay", PollyDefaultInitial))
                                        \div 1400)]_vars

\* Both calls have been retried, call 2 further than call 1, and both have a
\* factor in the table.
C10_Witness ==
    /\ call[1].state.attempt = 1 /\ call[2].state.attempt = 2
    /\ call[1].pc = "wait" /\ call[2].pc = "wait"
    /\ \E i \in PollyUnits :
          /\ <<i, 1>> \in DOMAIN factors /\ <<i, 2>> \in DOMAIN factors
          /\ factors[<<i, 1>>] # factors[<<i, 2>>]

\* The function was wrapped with a policy that join built from arguments.
IsJoined == policy.isFunction /\ "args" \in DOMAIN policy

\* What the policy last did for call c, and the units it went through.
Decided(c) == call[c].decided[1]

\* C11: for every argument list of join that flattens to the units U1..Uk
\* (k >= 2), whether the units are passed as policies or in arrays, the
\* policy join returns is the one the bare list U1..Uk gives; invoked for a
\* failure it calls U1 first, the units are called in the order of the
\* flattening, each at most once and with the state the policy was invoked
\* with, every unit but Uk is given a next and Uk is given none, and what the
\* policy returns or throws is what U1 does; for the two units of the join
\* test it is policy1(state, policy2).
C11_JoinComposes ==
    \A c \in Calls :
        (IsJoined /\ Len(policy.units) >= 2)
            => /\ join(policy.args) = join(policy.units)
               /\ call[c].decided # <<>> =>
                    LET tr == Decided(c).calls
                        k  == Len(policy.units)
                    IN /\ Len(tr) \in 1..k
                       /\ \A n \in 1..Len(tr) :
                             /\ tr[n].unit = n
                             /\ tr[n].kind = policy.units[n].kind
                             /\ tr[n].hasNext = (n < k)
                             /\ tr[n].state = tr[1].state
                       /\ tr[1].state = [call[c].state EXCEPT !.delay = tr[1].state.delay]
                       /\ Decided(c).thrown = tr[1].thrown
                       /\ Decided(c).delay = tr[1].delay
                       /\ Decided(c).err = tr[1].err
                       /\ (k = 2 /\ policy.units[1].kind = "Policy1"
                                 /\ policy.units[2].kind = "Policy2") =>
                             LET eff == Effects(<< >>)
                                 r   == Policy1(tr[1].state, Policy2(tr[1].state, eff), eff)
                             IN /\ Decided(c).thrown = r.thrown
                                /\ ~r.thrown => Decided(c).delay = r.delay
                                /\ r.thrown => Decided(c).err = r.err

\* join(policy1, [policy1, policy2]) went through its three units for the
\* first failure and returned policy2's delay.
C11_Witness ==
    /\ IsJoined /\ Len(policy.units) = 3 /\ Len(policy.args) = 2
    /\ policy.args[1].kind = "Policy1" /\ policy.args[2].kind = "Array"
    /\ call[1].decided # <<>>
    /\ Len(Decided(1).calls) = 3
    /\ ~Decided(1).calls[3].hasNext
    /\ Decided(1).delay = 1000

\* C12 as stated: join raises for every argument list that flattens to
\* fewer than 2 units, so that no function is ever wrapped with a policy
\* join built from no unit or from a single one.
C12_AsStated ==
    (IsJoined /\ Len(policy.units) < 2) => join(policy.args).kind = "TypeError"

\* The default composite was configured with an extension stage.
HasExtension == IsDefault /\ "next" \in DOMAIN policy.options

\* The extension stage P, and the policy join(Default(options), P) for the
\* same options without it.
Extension == policy.options.next

JoinedAfterwards ==
    LET options == [x \in DOMAIN policy.options \ {"next"} |-> policy.options[x]]
    IN Units(join(<<Default(options), Extension>>))

\* The policy evaluation went through the extension stage.
InvokesExtension(r) == \E n \in DOMAIN r.calls : r.calls[n].kind = Extension.kind

\* C13 as stated: whenever Default({next: P}) is evaluated for a failure,
\* join(Default(), P) evaluated for the same state (with the same random
\* draw and the same factor of PollyJitter) invokes P if and only if
\* Default({next: P}) does, and returns the same delay or throws the same.
C13_AsStated ==
    [][\A c \in Calls :
          (HasExtension /\ call'[c].policyCalls # call[c].policyCalls)
              => \E r \in Rnd :
                    LET state == [call'[c].state EXCEPT !.delay = call[c].state.delay]
                        rs    == [i \in 1..6 |-> r]
                        a     == Invoke(Wrap(policy), 1, state, c, Effects(factors), rs)
                        b     == Invoke(JoinedAfterwards, 1, state, c, Effects(factors), rs)
                    IN /\ a.thrown = Decided(c)'.thrown
                       /\ a.delay = Decided(c)'.delay \/ a.thrown
                       /\ InvokesExtension(a) = InvokesExtension(b)
                       /\ a.thrown = b.thrown
                       /\ ~a.thrown => a.delay = b.delay
                       /\ a.thrown => a.err = b.err]_vars

\* C14: at every moment of a call state.errors has state.attempt entries,
\* the errors of the failed attempts in the order of the failures, and once
\* there was a failure state.error is the last of them; before the first
\* failure attempt is 0, errors is empty and error is null.  attempt moves
\* only in the step in which an attempt fails (the one in which the policy
\* is consulted), by exactly 1, and that attempt's error is appended.
C14_ErrorsMatchAttempts ==
    /\ [](\A c \in Calls :
            LET state == call[c].state IN
            /\ Len(state.errors) = state.attempt
            /\ \A k \in 1..state.attempt : state.errors[k] = OpError(c, k)
            /\ state.attempt >= 1 => state.error = state.errors[state.attempt]
            /\ state.attempt = 0 => state.error = NoError /\ state.errors = <<>>)
    /\ [][\A c \in Calls :
            /\ (call'[c].state.attempt # call[c].state.attempt)
                  <=> (call[c].pc = "fn" /\ call'[c].policyCalls = call[c].policyCalls + 1)
            /\ (call'[c].state.attempt # call[c].state.attempt)
                  => /\ call'[c].state.attempt = call[c].state.attempt + 1
                     /\ call'[c].state.errors =
                            Append(call[c].state.errors, OpError(c, call[c].calls))
                     /\ call'[c].state.error = OpError(c, call[c].calls)]_vars

\* A call waits after its second failure.
C14_Witness ==
    /\ call[1].pc = "wait" /\ call[1].state.attempt = 2
    /\ call[1].state.errors = <<OpError(1, 1), OpError(1, 2)>>
    /\ call[1].state.error = OpError(1, 2)

\* C15 as stated: within a call state.delay, state.elapsed and
\* state.attempt never decrease from one step to the next.
C15_AsStated ==
    [][\A c \in Calls :
          call[c].pc # "idle"
              => /\ call'[c].state.delay >= call[c].state.delay
                 /\ call'[c].state.elapsed >= call[c].state.elapsed
                 /\ call'[c].state.attempt >= call[c].state.attempt]_vars

\* C15 (amended): within a call state.attempt and state.elapsed never
\* decrease; state.delay is written only in a step in which the policy
\* returns a delay and is then that delay, higher or lower than the one
\* before, and it is 0 until the policy has returned one.
C15_AttemptElapsedMonotone ==
    /\ [](\A c \in Calls : call[c].policyCalls = 0 => call[c].state.delay = 0)
    /\ [][\A c \in Calls :
            call[c].pc # "idle"
                => /\ call'[c].state.elapsed >= call[c].state.elapsed
                   /\ call'[c].state.attempt >= call[c].state.attempt
                   /\ IF call'[c].policyCalls # call[c].policyCalls
                             /\ ~Decided(c)'.thrown
                      THEN call'[c].state.delay = Decided(c)'.delay
                      ELSE call'[c].state.delay = call[c].state.delay]_vars

\* The default composite returned 20 ms for the first failure (the wait took
\* at least that long) and 0 ms for the second.
C15_Witness ==
    /\ IsDefault /\ ~Opt(policy.options, "fastTrack", FALSE)
    /\ call[1].pc = "wait" /\ call[1].state.attempt = 2
    /\ call[1].state.elapsed >= 20 /\ call[1].state.delay = 0

\* C16: a call that ends by cancellation ends with the reason, which is not
\* its last operation error; the retry state it ends with is the one the
\* last failed attempt left: attempt counts the invocations, error is the
\* last attempt's error, errors are the attempts' errors, none of them the
\* reason.  controller.abort() changes no call's retry state, and the step
\* that ends a wait with the reason leaves attempt, error and errors as they
\* were during the wait.
C16_CancelKeepsState ==
    /\ [](\A c \in Calls :
            /\ call[c].state.error # AbortReason
            /\ \A k \in DOMAIN call[c].state.errors : call[c].state.errors[k] # AbortReason
            /\ (Done(c) /\ Outcome(c) = AbortReason)
                  => /\ Outcome(c) # call[c].state.error
                     /\ call[c].state.attempt = call[c].calls
                     /\ call[c].state.error = OpError(c, call[c].calls)
                     /\ call[c].state.errors = [k \in 1..call[c].calls |-> OpError(c, k)])
    /\ [][\A c \in Calls :
            /\ aborted' # aborted => call'[c].state = call[c].state
            /\ (call[c].pc = "wait" /\ call'[c].pc = "done")
                  => /\ call'[c].outcome = <<AbortReason>>
                     /\ call'[c].state.attempt = call[c].state.attempt
                     /\ call'[c].state.error = call[c].state.error
                     /\ call'[c].state.errors = call[c].state.errors]_vars

\* A call with a custom policy was cancelled while it waited after its
\* second failure.
C16_Witness ==
    /\ policy.isFunction /\ ~call[1].preAborted
    /\ Done(1) /\ Outcome(1) = AbortReason
    /\ call[1].state.attempt \in call[1].listeners
    /\ call[1].state.errors = <<OpError(1, 1), OpError(1, 2)>>

\* The units the policy went through when it was last evaluated for call c.
Trace(c) == IF call[c].decided = <<>> THEN <<>> ELSE Decided(c).calls

\* In that evaluation, unit number u was called exactly once, as the call
\* that follows call number n, with the same state as it, and what call n
\* returned or threw is what that call returned or threw.
Delegated(c, n, u) ==
    LET tr == Trace(c) IN
    /\ Len(tr) > n
    /\ tr[n + 1].unit = u
    /\ Cardinality({m \in DOMAIN tr : tr[m].unit = u}) = 1
    /\ tr[n + 1].state = tr[n].state
    /\ tr[n].thrown = tr[n + 1].thrown
    /\ tr[n].delay = tr[n + 1].delay
    /\ tr[n].err = tr[n + 1].err

\* C17: whenever Breaker is called with state.attempt >= max it throws
\* state.error and next is not called (nothing is called after Breaker);
\* whenever it is called with state.attempt < max and a next, it calls next
\* exactly once, with the state it was given, and returns the delay next
\* returns or throws what next throws.
C17_Breaker ==
    \A c \in Calls : \A n \in DOMAIN Trace(c) :
        LET called == Trace(c)[n]
            max    == Opt(Wrap(policy)[called.unit].options, "max", BreakerDefaultMax)
        IN called.kind = "Breaker"
            => /\ called.state.attempt >= max
                    => /\ called.thrown
                       /\ called.err = called.state.error
                       /\ Len(Trace(c)) = n
               /\ (called.state.attempt < max /\ called.hasNext)
                    => Delegated(c, n, called.unit + 1)

\* Breaker(max = 3) passed the second failure on to its next and returned
\* its 100 ms.
C17_Witness ==
    /\ policy.isFunction /\ Len(policy.chain) = 2
    /\ policy.chain[1].kind = "Breaker" /\ policy.chain[1].options.max = 3
    /\ call[1].pc = "wait" /\ call[1].state.attempt = 2
    /\ Len(Trace(1)) = 2 /\ Trace(1)[1].delay = 100

\* The policy is Breaker(max) alone.
IsBreakerAlone(max) ==
    /\ policy.isFunction /\ Len(policy.chain) = 1
    /\ policy.chain[1].kind = "Breaker" /\ policy.chain[1].options.max = max

\* C18: with Breaker(max = 1) alone as the policy the operation is never
\* invoked a second time and the call never waits; when the one attempt
\* fails the policy is consulted once and the call ends in that step with
\* the error the operation failed with.
C18_BreakerOne ==
    \A c \in Calls :
        IsBreakerAlone(1)
            => /\ call[c].calls <= 1
               /\ call[c].pc \in {"idle", "fn", "done"}
               /\ call[c].timers = {}
               /\ (Done(c) /\ Outcome(c).kind # "value")
                     => /\ call[c].calls = 1
                        /\ call[c].policyCalls = 1
                        /\ Outcome(c) = OpError(c, 1)
                        /\ Outcome(c) = call[c].state.error

C18_Witness ==
    /\ IsBreakerAlone(1)
    /\ Done(1) /\ Outcome(1) = OpError(1, 1) /\ call[1].calls = 1

\* C19: whenever Timeout is called with state.elapsed > after - state.delay,
\* or without a next, it throws state.error and calls nothing; in every
\* other case it calls next exactly once, with the state it was given, and
\* returns the delay next returns (or throws what next throws).  The policy,
\* and Timeout with it, is evaluated only in the step in which an attempt
\* has failed: while an attempt is in flight the passing of time changes
\* nothing in the call, however far past the deadline.
C19_Timeout ==
    /\ [](\A c \in Calls : \A n \in DOMAIN Trace(c) :
            LET called == Trace(c)[n]
                after  == Opt(Wrap(policy)[called.unit].options, "after",
                              TimeoutDefaultAfter)
            IN called.kind = "Timeout"
                => IF called.state.elapsed > after - called.state.delay
                        \/ ~called.hasNext
                   THEN /\ called.thrown
                        /\ called.err = called.state.error
                        /\ Len(Trace(c)) = n
                   ELSE Delegated(c, n, called.unit + 1))
    /\ [][\A c \in Calls :
            /\ (call[c].pc = "fn" /\ now' # now) => call'[c] = call[c]
            /\ call'[c].policyCalls # call[c].policyCalls
                  => /\ call[c].pc = "fn"
                     /\ call'[c].inflight = call[c].inflight - 1
                     /\ call'[c].state.attempt = call[c].state.attempt + 1]_vars

\* Timeout(after = 250) gave up on the third failure although its next was
\* there and the deadline had not passed: elapsed was above 250 - 100.
C19_Witness ==
    /\ policy.isFunction /\ policy.chain[1].kind = "Timeout"
    /\ policy.chain[1].options.after = 250
    /\ Done(1) /\ Outcome(1) = OpError(1, 3)
    /\ call[1].state.elapsed <= 250 /\ call[1].state.delay = 100
    /\ Len(Trace(1)) = 1 /\ Trace(1)[1].hasNext

\* The default composite was configured with fastTrack.
IsFastTracked == IsDefault /\ Opt(policy.options, "fastTrack", FALSE)

\* C20: whenever FastTrack is called with a next it calls it exactly once,
\* with the state it was given; when next returns a delay FastTrack returns
\* 0 if state.attempt = 1 and that delay unchanged if state.attempt > 1 (and
\* it throws what next throws).  Under the default composite with fastTrack,
\* once the policy has returned for the first failure state.delay is 0 and
\* the timer of the wait is due at the time of the failure.
C20_FastTrack ==
    /\ \A c \in Calls : \A n \in DOMAIN Trace(c) :
          LET called == Trace(c)[n]
              tr     == Trace(c)
          IN (called.kind = "FastTrack" /\ called.hasNext)
              => /\ Len(tr) > n
                 /\ tr[n + 1].unit = called.unit + 1
                 /\ Cardinality({m \in DOMAIN tr : tr[m].unit = called.unit + 1}) = 1
                 /\ tr[n + 1].state = called.state
                 /\ called.thrown = tr[n + 1].thrown
                 /\ called.err = tr[n + 1].err
                 /\ ~called.thrown
                       => called.delay = IF called.state.attempt = 1 THEN 0
                                         ELSE tr[n + 1].delay
    /\ \A c \in Calls :
          (IsFastTracked /\ call[c].state.attempt = 1 /\ ~Decided(c).thrown)
              => /\ call[c].state.delay = 0
                 /\ Decided(c).delay = 0
                 /\ \A tm \in call[c].timers :
                       tm.due = call[c].state.start + call[c].state.elapsed

\* Under the default composite with fastTrack a call waits after its first
\* failure with a delay of 0, PollyJitter having returned more than 0.
C20_Witness ==
    /\ IsFastTracked /\ call[1].pc = "wait" /\ call[1].state.attempt = 1
    /\ call[1].state.delay = 0
    /\ \E n \in DOMAIN Trace(1) :
          /\ Trace(1)[n].kind = "FastTrack" /\ Trace(1)[n].delay = 0
          /\ Trace(1)[n + 1].kind = "PollyJitter" /\ Trace(1)[n + 1].delay > 0

\* C21 as stated: whenever FastTrack is called without a next it throws,
\* and with FastTrack alone as the policy the operation is not invoked again
\* after its first failure.
C21_AsStated ==
    \A c \in Calls :
        /\ \A n \in DOMAIN Trace(c) :
              (Trace(c)[n].kind = "FastTrack" /\ ~Trace(c)[n].hasNext)
                  => Trace(c)[n].thrown
        /\ (policy.isFunction /\ policy.chain = <<[kind |-> "FastTrack"]>>)
              => call[c].calls <= 1

\* The calls of Logger units in a trace, in call order.
LoggerCalls(tr) == LET IsLogger(e) == e.kind = "Logger" IN SelectSeq(tr, IsLogger)

\* The sink a Logger unit of the chain uses for a level.
Sink(unit, level) == Opt(Wrap(policy)[unit].options, level, "console")

\* What the Logger calls of a trace must have logged: one warn per call, in
\* call order, then one error per call that threw, innermost first.
ExpectedLogs(tr) ==
    LET ls       == LoggerCalls(tr)
        Threw(e) == e.thrown
        th       == SelectSeq(ls, Threw)
    IN [i \in 1..Len(ls) |->
            LogEntry("warn", Sink(ls[i].unit, "warn"), ls[i].state, ls[i].state.error)]
       \o [i \in 1..Len(th) |->
            LET e == th[Len(th) + 1 - i]
            IN LogEntry("error", Sink(e.unit, "error"), e.state, e.err)]

\* C22: whenever Logger is called with a next it calls it exactly once with
\* the state it was given, and returns the delay next returns or throws the
\* very value next throws; without a next it throws state.error and calls
\* nothing.  In the step in which the policy is evaluated the log grows by
\* exactly: one warn-level entry per Logger call, made before anything the
\* delegation logs and carrying the attempt, the elapsed time and
\* state.error; and, after them, one error-level entry per Logger call that
\* threw, carrying what it threw, and none for a call that returned a delay.
\* Nothing is logged in any other step.
C22_Logger ==
    /\ [](\A c \in Calls : \A n \in DOMAIN Trace(c) :
            LET called == Trace(c)[n] IN
            called.kind = "Logger"
                => IF called.hasNext
                   THEN Delegated(c, n, called.unit + 1)
                   ELSE /\ called.thrown
                        /\ called.err = called.state.error
                        /\ Len(Trace(c)) = n)
    /\ [][\A c \in Calls :
            call'[c].logs =
                IF call'[c].policyCalls # call[c].policyCalls
                THEN call[c].logs \o ExpectedLogs(Trace(c)')
                ELSE IF call[c].pc = "idle" THEN <<>> ELSE call[c].logs]_vars

\* Two Logger units in a row logged the second failure, which the policy
\* after them gave up on: two warns, then two errors, innermost first.
C22_Witness ==
    /\ policy.isFunction /\ Len(policy.chain) = 3
    /\ policy.chain[2].kind = "Logger"
    /\ Done(1) /\ Outcome(1) = OpError(1, 2)
    /\ Len(call[1].logs) = 6
    /\ call[1].logs[3].level = "warn" /\ call[1].logs[3].sink = "console"
    /\ call[1].logs[4].level = "warn" /\ call[1].logs[4].sink = "custom"
    /\ call[1].logs[5].level = "error" /\ call[1].logs[5].sink = "custom"
    /\ call[1].logs[6].level = "error" /\ call[1].logs[6].sink = "console"
    /\ call[1].logs[6].err = OpError(1, 2)

\* The default composite was built from no configuration.
IsNoConfig == IsDefault /\ DOMAIN policy.options = {}

\* C23: under Default() with no configuration every delay the policy
\* returns is between 0 and the default max delay and every timer is due
\* within that time, and a call whose third attempt is the first to succeed
\* has invoked the operation exactly 3 times and the policy twice, returns
\* the value of the third attempt, and has logged exactly two entries: a
\* warn for attempt 1 and a warn for attempt 2, both on the console sink,
\* and nothing at error level.
C23_ThirdAttemptSucceeds ==
    \A c \in Calls :
        IsNoConfig
            => /\ call[c].state.delay \in 0..PollyDefaultMax
               /\ \A tm \in call[c].timers :
                     tm.due <= call[c].state.start + call[c].state.elapsed
                                + PollyDefaultMax
               /\ (Done(c) /\ Outcome(c).kind = "value" /\ Len(call[c].state.errors) = 2)
                     => /\ call[c].calls = 3
                        /\ call[c].policyCalls = 2
                        /\ Outcome(c) = OpValue(c, 3)
                        /\ Len(call[c].logs) = 2
                        /\ \A k \in 1..2 :
                              /\ call[c].logs[k].level = "warn"
                              /\ call[c].logs[k].sink = "console"
                              /\ call[c].logs[k].attempt = k
                              /\ call[c].logs[k].err = OpError(c, k)

\* The third attempt succeeded after two waits, the second of more than 0 ms.
C23_Witness ==
    /\ IsNoConfig /\ Done(1) /\ Outcome(1) = OpValue(1, 3)
    /\ Len(call[1].logs) = 2 /\ call[1].state.delay > 0
    /\ call[1].state.elapsed > 0

\* C24: whenever BrandError is called and its next (state.error when it
\* has none) throws, BrandError throws one aggregate whose error list has
\* exactly state.attempt entries, the errors of the failed attempts in
\* order, and whose cause is the last of them; whenever its next returns a
\* delay BrandError returns that delay and throws nothing.
C24_AsStated ==
    \A c \in Calls : \A n \in DOMAIN Trace(c) :
        LET called == Trace(c)[n]
            inner  == IF called.hasNext THEN Trace(c)[n + 1]
                      ELSE [thrown |-> TRUE, delay |-> 0, err |-> called.state.error]
        IN  called.kind = "BrandError"
                => IF inner.thrown
                   THEN /\ called.thrown
                        /\ called.err.kind = "aggregate"
                        /\ Len(called.err.errors) = called.state.attempt
                        /\ called.err.errors = called.state.errors
                        /\ called.err.cause = <<called.state.error>>
                   ELSE ~called.thrown /\ called.delay = inner.delay

\* The function was to be wrapped with a policy that starts with Backoff.
IsBackoff == policy.isFunction /\ "built" \in DOMAIN policy

C26_BackoffValidates ==
    IsBackoff
        => LET delay == Opt(policy.options, "delay", BackoffDefaultDelay)
               exp   == Opt(policy.options, "exp", [num |-> BackoffDefaultExp, den |-> 1])
           IN  (delay <= 0 \/ exp.num <= 0)
                   => /\ policy.built.kind = "TypeError"
                      /\ policy.chain = << >>
                      /\ callers = {}
                      /\ \A c \in Calls :
                            /\ call[c].pc = "idle"
                            /\ call[c].calls = 0
                            /\ call[c].policyCalls = 0

\* Backoff({ exp: 0 }) threw the TypeError about exp, and time has passed
\* since.
C26_Witness ==
    /\ IsBackoff /\ DOMAIN policy.options = {"exp"} /\ policy.options.exp.num = 0
    /\ policy.built = BackoffTypeError(2)
    /\ now > 0 /\ aborted

\* C27: a decorated method is not wrapped before its first call and is
\* wrapped from then on, and every call of it runs the method with the
\* object it was called on as `this`.
C27_AsStated ==
    \A c \in Calls :
        /\ (wrapped = << >>) <=> (\A d \in Calls : call[d].receiver = << >>)
        /\ (call[c].calls >= 1 /\ call[c].receiver # << >>)
              => call[c].boundThis = call[c].receiver

\* C28: after wrapped(signal) and until what it returned is called, the
\* operation has not been invoked, no policy evaluated and nothing
\* delivered; a call made through it never waits once the signal is
\* aborted, and the abort ends its wait with the signal's reason; a direct
\* call never subscribes to the signal, never ends with its reason, and is
\* left as it is by the abort, whether it was made before or after the
\* other use bound the signal.
C28_BoundSignal ==
    /\ [](\A c \in Calls :
            /\ call[c].pc = "bound"
                  => /\ call[c].sig
                     /\ call[c].calls = 0 /\ call[c].inflight = 0
                     /\ call[c].policyCalls = 0 /\ call[c].outcome = <<>>
            /\ (call[c].viaSignal /\ aborted) => call[c].pc # "wait"
            /\ ~call[c].viaSignal
                  => /\ ~call[c].sig
                     /\ call[c].listeners = {}
                     /\ Done(c) => Outcome(c) # AbortReason)
    /\ [][\A c \in Calls :
            (aborted' /\ ~aborted)
                => /\ ~call[c].viaSignal => call'[c] = call[c]
                   /\ (call[c].viaSignal /\ call[c].pc = "wait")
                         => call'[c].pc = "done" /\ call'[c].outcome = <<AbortReason>>]_vars

\* The signal was bound by the second use before the first, direct, call was
\* made; the bound call was ended by the abort during its wait and the
\* direct call went on to its last attempt.
C28_Witness ==
    /\ aborted
    /\ call[2].viaSignal /\ Done(2) /\ Outcome(2) = AbortReason /\ call[2].calls = 1
    /\ call[2].state.start <= call[1].state.start
    /\ ~call[1].viaSignal /\ Done(1) /\ Outcome(1) = OpError(1, 2)

\* C29: state.delay changes only in the step that evaluates the policy.
\* In the evaluation for the k-th failure every unit is called with
\* state.attempt = k and with state.delay as it was before the step, which
\* is 0 when k = 1 and else the delay the policy returned for failure
\* k - 1; when the policy returns a delay state.delay becomes that delay,
\* when it throws state.delay stays as it was.
C29_DelayWrittenAfterPolicy ==
    [][\A c \in Calls :
        IF call'[c].policyCalls = call[c].policyCalls
        THEN call'[c].state.delay = call[c].state.delay
        ELSE /\ call'[c].policyCalls = call[c].policyCalls + 1
             /\ Trace(c)' # <<>>
             /\ \A n \in DOMAIN Trace(c)' :
                   /\ Trace(c)'[n].state.attempt = call'[c].policyCalls
                   /\ Trace(c)'[n].state.delay = call[c].state.delay
             /\ call[c].state.delay
                   = IF call[c].policyCalls = 0 THEN 0 ELSE Decided(c).delay
             /\ call'[c].state.delay
                   = IF Decided(c)'.thrown THEN call[c].state.delay
                     ELSE Decided(c)'.delay]_vars

\* The policy threw for the second failure, after it had been called with
\* the delay it returned for the first, and state.delay is still that delay.
C29_Witness ==
    /\ Done(1) /\ call[1].policyCalls = 2 /\ Decided(1).thrown
    /\ call[1].state.delay > 0
    /\ \A n \in DOMAIN Trace(1) : Trace(1)[n].state.delay = call[1].state.delay

\* In the last policy evaluation of call c, under the default composite,
\* Timeout was called and threw without calling its next.
TimeoutGaveUp(c) ==
    \E n \in DOMAIN Trace(c) :
        /\ Trace(c)[n].kind = "Timeout"
        /\ Trace(c)[n].thrown
        /\ Len(Trace(c)) = n

\* C30 as stated: under the default composite, whenever Timeout lets the
\* evaluation go on and the policy returns the delay of the upcoming wait,
\* elapsed plus that wait does not exceed `after` (Timeout would have given
\* up otherwise).
C30_AsStated ==
    \A c \in Calls :
        (IsDefault /\ call[c].decided # <<>> /\ ~Decided(c).thrown)
            => call[c].state.elapsed + Decided(c).delay <= TimeoutAfter

\* C30: under the default composite, in the step that evaluates the policy
\* for a failure, Timeout gives up exactly when the elapsed time of that
\* failure exceeds `after` minus state.delay as it was before the step: the
\* delay returned for the failure before, which is the wait that preceded
\* the attempt that has just failed (0 at the first failure), not the wait
\* that is about to start.
C30_TimeoutSubtractsLastDelay ==
    [][\A c \in Calls :
        (IsDefault /\ call'[c].policyCalls # call[c].policyCalls)
            => /\ TimeoutGaveUp(c)'
                    <=> call'[c].state.elapsed > TimeoutAfter - call[c].state.delay
               /\ call[c].state.delay
                    = IF call[c].policyCalls = 0 THEN 0 ELSE Decided(c).delay
               /\ TimeoutGaveUp(c)' => call'[c].state.delay = call[c].state.delay]_vars

\* Timeout let the second failure pass because the elapsed time was within
\* `after` minus the wait before the second attempt, and the call now waits
\* past the deadline.
C30_Witness ==
    /\ IsDefault /\ call[1].pc = "wait" /\ call[1].policyCalls = 2
    /\ ~TimeoutGaveUp(1)
    /\ call[1].state.elapsed + call[1].state.delay > TimeoutAfter

\* The function was wrapped with a chain that ends in a delegating unit.
IsClosed == policy.isFunction /\ "closed" \in DOMAIN policy /\ policy.closed

\* C31: whenever Breaker, Timeout, Logger, Jitter (FullJitter and
\* EqualJitter included) or BrandError is called without a next, it throws
\* and calls nothing: state.error, or for BrandError the aggregate whose
\* cause is state.error.  A call under a chain that ends in one of them,
\* after units that all delegate, invokes the operation once at most and,
\* once that attempt has failed, has ended with that failure and never
\* waited; a Logger that is last has then logged one warn and one error,
\* both for attempt 1.
C31_FailsClosed ==
    \A c \in Calls :
        /\ \A n \in DOMAIN Trace(c) :
              LET called == Trace(c)[n] IN
              (called.kind \in {"Breaker", "Timeout", "Logger", "Jitter", "BrandError"}
                    /\ ~called.hasNext)
                  => /\ called.thrown
                     /\ Len(Trace(c)) = n
                     /\ IF called.kind = "BrandError"
                        THEN /\ called.err.kind = "aggregate"
                             /\ called.err.cause = <<called.state.error>>
                        ELSE called.err = called.state.error
        /\ IsClosed
              => /\ call[c].calls <= 1
                 /\ call[c].timers = {}
                 /\ call[c].policyCalls = 1
                       => /\ Done(c)
                          /\ Decided(c).thrown
                          /\ Len(Trace(c)) = Len(policy.chain)
                          /\ Outcome(c) = Trace(c)[1].err
                          /\ Outcome(c) \in {OpError(c, 1),
                                             RetryyyError(<<OpError(c, 1), OpError(c, 1)>>,
                                                          OpError(c, 1))}
                 /\ (call[c].policyCalls = 1 /\ policy.chain = <<[kind |-> "Logger", options |-> << >>]>>)
                       => /\ Len(call[c].logs) = 2
                          /\ call[c].logs[1].level = "warn" /\ call[c].logs[1].attempt = 1
                          /\ call[c].logs[2].level = "error" /\ call[c].logs[2].attempt = 1
                          /\ call[c].logs[2].err = OpError(c, 1)

\* EqualJitter, last after a Breaker that had not tripped and FastTrack,
\* threw state.error at the first failure and the call ended with it.
C31_Witness ==
    /\ IsClosed /\ Len(policy.chain) = 3 /\ policy.chain[3] = EqualJitter
    /\ Done(1) /\ call[1].calls = 1 /\ Outcome(1) = OpError(1, 1)
    /\ Len(Trace(1)) = 3 /\ ~Trace(1)[3].hasNext /\ Trace(1)[3].thrown
    /\ now > 0

\* The function was wrapped with a jitter over an upstream delay.
IsJitter == policy.isFunction /\ "jitter" \in DOMAIN policy

C33_AsStated ==
    \A c \in Calls : \A n \in DOMAIN Trace(c) :
        LET called == Trace(c)[n] IN
        (called.kind = "DecorrelatedJitter" /\ ~called.thrown)
            => LET options == Wrap(policy)[called.unit].options
                   initial == Opt(options, "initial", DecorrelatedDefaultInitial)
                   max     == Opt(options, "max", DecorrelatedDefaultMax)
                   base    == IF called.state.attempt = 1 THEN initial
                              ELSE called.state.delay
                   top     == Min(max, 3 * base)
               IN  initial <= called.delay /\ called.delay < top

\* The sink the default composite's Logger uses for a level.
DefaultSink(level) == Sink(1, level)

\* C34: under the default composite with maxAttempts = N >= 1 and a timeout
\* that does not trip, a call has no error-level log while it runs; a call
\* all of whose N attempts failed has logged exactly N + 1 entries, the
\* warn of each failed attempt 1..N in order and then one error for attempt
\* N with the last operation error, and that error entry is written after
\* the warn of attempt N in the very step in which the call ends.
C34_Logs ==
    /\ [](\A c \in Calls :
            IsDefault
                => /\ ~Done(c) => \A k \in DOMAIN call[c].logs : call[c].logs[k].level = "warn"
                   /\ (Done(c) /\ Outcome(c).kind = "op")
                         => /\ call[c].calls = MaxAttempts
                            /\ Outcome(c) = OpError(c, MaxAttempts)
                            /\ Len(call[c].logs) = MaxAttempts + 1
                            /\ \A k \in 1..MaxAttempts :
                                  /\ call[c].logs[k].level = "warn"
                                  /\ call[c].logs[k].sink = DefaultSink("warn")
                                  /\ call[c].logs[k].attempt = k
                                  /\ call[c].logs[k].err = OpError(c, k)
                            /\ call[c].logs[MaxAttempts + 1]
                                  = LogEntry("error", DefaultSink("error"),
                                             call[c].state, OpError(c, MaxAttempts)))
    /\ [][\A c \in Calls :
            (IsDefault /\ ~Done(c) /\ Done(c)' /\ Outcome(c)'.kind = "op")
                => /\ Len(call[c].logs) = MaxAttempts - 1
                   /\ Len(call'[c].logs) = MaxAttempts + 1
                   /\ SubSeq(call'[c].logs, 1, MaxAttempts - 1) = call[c].logs]_vars

\* With maxAttempts 3 and the caller's sinks, the third failure ended the
\* call: three warns and one error were logged.
C34_Witness ==
    /\ IsDefault /\ MaxAttempts = 3 /\ Done(1) /\ Outcome(1) = OpError(1, 3)
    /\ Len(call[1].logs) = 4
    /\ call[1].logs[3].level = "warn" /\ call[1].logs[3].sink = "custom"
    /\ call[1].logs[4].level = "error" /\ call[1].logs[4].sink = "custom"

\* C35: the abort leaves a call whose attempt is in flight exactly as it
\* is.  When the attempt of a call made with the signal then completes: if
\* it resolves, the call ends with its value and the policy is not
\* evaluated; if it rejects, attempt, error and errors are updated for it,
\* the policy is evaluated once, and the call ends in that step without
\* another invocation, with what the policy threw if it threw and with the
\* signal's reason if it returned a delay.
C35_AbortInFlight ==
    [][\A c \in Calls :
        /\ (~aborted /\ aborted' /\ call[c].pc = "fn") => call'[c] = call[c]
        /\ (aborted /\ call[c].sig /\ call[c].pc = "fn" /\ call'[c] # call[c])
              => /\ call'[c].pc = "done"
                 /\ call'[c].calls = call[c].calls
                 /\ call'[c].inflight = 0
                 /\ call'[c].timers = {}
                 /\ IF call'[c].policyCalls = call[c].policyCalls
                    THEN /\ call'[c].outcome = <<OpValue(c, call[c].calls)>>
                         /\ call'[c].state = call[c].state
                    ELSE /\ call'[c].policyCalls = call[c].policyCalls + 1
                         /\ call'[c].state.attempt = call[c].state.attempt + 1
                         /\ call'[c].state.error = OpError(c, call[c].calls)
                         /\ call'[c].state.errors
                               = Append(call[c].state.errors, OpError(c, call[c].calls))
                         /\ call'[c].outcome
                               = IF Decided(c)'.thrown THEN <<Decided(c)'.err>>
                                 ELSE <<AbortReason>>]_vars

\* The abort arrived while the second attempt was in flight; the attempt
\* failed, the policy returned a delay for it and the call ended with the
\* reason without waiting.
C35_Witness ==
    /\ aborted /\ call[1].sig /\ ~call[1].preAborted
    /\ Done(1) /\ Outcome(1) = AbortReason
    /\ call[1].calls = 2 /\ call[1].state.attempt = 2 /\ call[1].policyCalls = 2
    /\ ~Decided(1).thrown /\ Decided(1).delay > 0
    /\ 2 \notin call[1].listeners

\* The chain holds a Logger and a BrandError.
HasLoggerAndBrand ==
    /\ \E i \in DOMAIN Wrap(policy) : Wrap(policy)[i].kind = "Logger"
    /\ \E i \in DOMAIN Wrap(policy) : Wrap(policy)[i].kind = "BrandError"

\* C36: a call ends by cancellation when it ends without a value in a step
\* in which the policy is not evaluated (the abort during the wait) or
\* returns a delay (the wait that finds the signal aborted).  In that step
\* the call's outcome is the bare reason, whatever the chain, and nothing is
\* logged at error level: every entry of its log is a warn for an operation
\* error; and no unit of the chain is ever called with the reason as
\* state.error.
C36_CancelOutsideChain ==
    /\ [](\A c \in Calls : \A n \in DOMAIN Trace(c) :
            Trace(c)[n].state.error # AbortReason)
    /\ [][\A c \in Calls :
            (/\ ~Done(c) /\ Done(c)'
             /\ Outcome(c)'.kind # "value"
             /\ \/ call'[c].policyCalls = call[c].policyCalls
                \/ ~Decided(c)'.thrown)
                => /\ call'[c].outcome = <<AbortReason>>
                   /\ call[c].sig /\ aborted'
                   /\ \A k \in DOMAIN call'[c].logs :
                         /\ call'[c].logs[k].level = "warn"
                         /\ call'[c].logs[k].err.kind = "op"]_vars

\* Under Logger, BrandError, Breaker(3) and a fixed delay, a call was
\* cancelled after its second failure: it ended with the bare reason and
\* its log holds the two warns only.
C36_Witness ==
    /\ HasLoggerAndBrand
    /\ Done(1) /\ Outcome(1) = AbortReason /\ call[1].state.attempt = 2
    /\ Len(call[1].logs) = 2 /\ call[1].logs[2].level = "warn"

\* C37: under the default composite with maxAttempts = N >= 1, when every
\* attempt completes and every timer fires, every call that was made
\* eventually ends; the operation is never invoked more than N times and a
\* call waits only after one of its first N - 1 failures.
C37_Terminates ==
    /\ [](\A c \in Calls :
            IsDefault
                => /\ call[c].calls <= MaxAttempts
                   /\ (call[c].pc = "wait" \/ call[c].timers # {})
                         => call[c].state.attempt <= MaxAttempts - 1
                   /\ call[c].policyCalls <= MaxAttempts)
    /\ \A c \in Calls : (call[c].pc # "idle") ~> Done(c)

\* With maxAttempts 3 the call ended with the error of its third attempt,
\* after two waits.
C37_Witness ==
    /\ IsDefault /\ MaxAttempts = 3
    /\ Done(1) /\ Outcome(1) = OpError(1, 3) /\ call[1].calls = 3
    /\ call[1].state.elapsed > 0

\* The calls of the extension stage, the last unit of the default
\* composite, in the last policy evaluation of call c.
ExtensionCalls(c) == {n \in DOMAIN Trace(c) : Trace(c)[n].unit = Len(Wrap(policy))}

\* In that evaluation Breaker was called and threw without calling its next.
BreakerGaveUp(c) ==
    \E n \in DOMAIN Trace(c) :
        /\ Trace(c)[n].kind = "Breaker"
        /\ Trace(c)[n].thrown
        /\ Len(Trace(c)) = n

\* The default composite for the same options without the extension stage.
WithoutExtension ==
    Units(Default([x \in DOMAIN policy.options \ {"next"} |-> policy.options[x]]))

\* C38: in every evaluation of a default composite with an extension stage,
\* the stage is called once at most, and it is called exactly when neither
\* Timeout nor Breaker gave up; it is called last, with the state of the
\* evaluation and without a next.  When it throws, the composite throws the
\* same value, the call ends with it and the last entry of the log is the
\* error-level entry for it.  When it returns a delay, the composite
\* returns the delay it returns without the stage (for the same state,
\* draw and factor).
C38_ExtensionStage ==
    /\ [](\A c \in Calls :
            (HasExtension /\ call[c].decided # <<>>)
                => /\ Cardinality(ExtensionCalls(c)) <= 1
                   /\ (ExtensionCalls(c) # {}) <=> (~TimeoutGaveUp(c) /\ ~BreakerGaveUp(c))
                   /\ \A n \in ExtensionCalls(c) :
                         LET called == Trace(c)[n] IN
                         /\ ~called.hasNext
                         /\ n = Len(Trace(c))
                         /\ called.state = Trace(c)[1].state
                         /\ called.thrown
                               => /\ Decided(c).thrown /\ Decided(c).err = called.err
                                  /\ Done(c) /\ Outcome(c) = called.err
                                  /\ call[c].logs[Len(call[c].logs)]
                                        = LogEntry("error", DefaultSink("error"),
                                                   called.state, called.err)
                         /\ ~called.thrown => ~Decided(c).thrown)
    /\ [][\A c \in Calls :
            (/\ HasExtension
             /\ call'[c].policyCalls # call[c].policyCalls
             /\ \E n \in ExtensionCalls(c)' : ~Trace(c)'[n].thrown)
                => \E r \in Rnd :
                      LET state == [call'[c].state EXCEPT !.delay = call[c].state.delay]
                          b     == Invoke(WithoutExtension, 1, state, c,
                                          Effects(factors), [i \in 1..6 |-> r])
                      IN ~b.thrown /\ b.delay = Decided(c)'.delay]_vars

\* The extension stage threw an error of its own at the third failure,
\* which Breaker (maxAttempts 4) and Timeout had let pass: the call ended
\* with it and it was logged at error level.
C38_Witness ==
    /\ HasExtension /\ Extension.kind = "Policy1"
    /\ Done(1) /\ Outcome(1) = MaxAttemptsReached /\ call[1].calls = 3
    /\ call[1].logs[Len(call[1].logs)].level = "error"
    /\ call[1].logs[Len(call[1].logs)].err = MaxAttemptsReached

====
